---------------------------- MODULE Spec2Model ----------------------------
(***************************************************************************)
(* tix-cli: the task storage layer (JSON TaskStorage with its in-memory    *)
(* index and ID allocator, SQLiteTaskStorage) and the CLI commands built   *)
(* on it.                                                                  *)
(*                                                                         *)
(* Python objects are shared by reference: TaskStorage.get_task and        *)
(* add_task hand out the very object the index holds.  Every index entry   *)
(* carries the identity (oid) of its object next to the object's value,    *)
(* and so does the one reference the caller holds (held): writing a field  *)
(* of an object writes it wherever that object is.                         *)
(*                                                                         *)
(* A timestamp is a number of Times; a field that is None in Python is 0.  *)
(* datetime.now() is the variable clock, which only moves forward; one     *)
(* operation reads it once.                                                *)
(***************************************************************************)
EXTENDS Integers, Sequences, FiniteSets, TLC

\* ------------------------------------------------------------------ bounds
MaxTasks == 2
MaxId == 3
MaxArr == 2
MaxTime == 2
MaxInitNextId == 3
MaxPage == 3
MaxPageSize == 2
MaxText == 2
MaxTags == 2
MaxName == 2

Times == 1..MaxTime
Texts == {<<"a">>, <<"b">>}
Ids == 1..MaxId
None == 0

\* ------------------------------------------------------- generic helpers
Max(a, b) == IF a >= b THEN a ELSE b

Range(s) == {s[i] : i \in 1..Len(s)}

RECURSIVE SeqsUpTo(_, _)
SeqsUpTo(S, n) ==
    IF n = 0 THEN {<<>>}
    ELSE LET shorter == SeqsUpTo(S, n - 1)
         IN  shorter \cup {Append(s, x) : s \in {q \in shorter : Len(q) = n - 1}, x \in S}

\* The arguments of list_tasks and iter_tasks: pages from -1 on, page sizes
\* from 1 on, starts and counts from 0 to beyond the end of the list.
Pages == (0 - 1)..MaxPage
PageSizes == 1..MaxPageSize
Starts == 0..(MaxTasks + 1)
Counts == 0..(MaxTasks + 1)

\* The texts given on the command line: sequences of at most MaxText
\* characters, the empty one and the blank ones included.
CliTexts == SeqsUpTo({" ", "a"}, MaxText)

\* The tags given to add_task or on the command line, the same tag twice
\* included.
TagLists == SeqsUpTo({"x", "y"}, MaxTags)

\* The arguments of done-all: one or two ids.
IdLists == SeqsUpTo(Ids, 2) \ {<<>>}

\* -------------------------------------------------------------- Task
\* models.py: the dataclass Task with its defaults.
Task(id, text, priority, tags, now) ==
    [id |-> id, text |-> text, priority |-> priority, completed |-> FALSE,
     created_at |-> now, completed_at |-> None, tags |-> tags,
     attachments |-> <<>>, links |-> <<>>, is_global |-> FALSE,
     parent_id |-> None, subtasks |-> <<>>, notes |-> ""]

TaskFields == {"id", "text", "priority", "completed", "created_at", "completed_at",
               "tags", "attachments", "links", "is_global", "parent_id", "subtasks",
               "notes"}

\* A JSON value in the place of an id: type is "int", "bool" or "str"; val is
\* the number Python computes with (True is 1, False is 0; 0 for a string).
IntJ(n) == [type |-> "int", val |-> n]
TrueJ == [type |-> "bool", val |-> 1]
StrJ == [type |-> "str", val |-> 0]

\* A to_dict that leaves out the notes.
to_dict_without_notes(t) ==
    [k \in TaskFields \ {"notes"} |-> IF k = "id" THEN IntJ(t.id) ELSE t[k]]

\* Task.to_dict: every field, the id as a JSON number.
to_dict(t) == [k \in TaskFields |-> IF k = "id" THEN IntJ(t.id) ELSE t[k]]

Get(d, k, default) == IF k \in DOMAIN d THEN d[k] ELSE default

\* Task.from_dict ends in cls(**data): id and text are required arguments and a
\* key that is no field is an unexpected keyword; both raise TypeError.
FromDictRaises(d) ==
    \/ "id" \notin DOMAIN d
    \/ "text" \notin DOMAIN d
    \/ ~(DOMAIN d \subseteq TaskFields)

\* Task.from_dict: the six extended fields default explicitly, the others by
\* the dataclass (created_at by the clock at the time of the call).
from_dict(d, now) ==
    [id |-> d.id.val, text |-> d.text,
     priority |-> Get(d, "priority", "medium"),
     completed |-> Get(d, "completed", FALSE),
     created_at |-> Get(d, "created_at", now),
     completed_at |-> Get(d, "completed_at", None),
     tags |-> Get(d, "tags", <<>>),
     attachments |-> Get(d, "attachments", <<>>),
     links |-> Get(d, "links", <<>>),
     is_global |-> Get(d, "is_global", FALSE),
     parent_id |-> Get(d, "parent_id", None),
     subtasks |-> Get(d, "subtasks", <<>>),
     notes |-> Get(d, "notes", "")]

\* A mark_done that stamps created_at as well.
mark_done_stamps_created_at(t, now) ==
    [t EXCEPT !.completed = TRUE, !.completed_at = now, !.created_at = now]

\* Task.mark_done
mark_done(t, now) == [t EXCEPT !.completed = TRUE, !.completed_at = now]

\* Task.add_tag
add_tag(t, tag) == IF tag \in Range(t.tags) THEN t ELSE [t EXCEPT !.tags = Append(@, tag)]

\* Task.add_subtask
add_subtask(t, subtask_id) ==
    IF subtask_id \in Range(t.subtasks) THEN t
    ELSE [t EXCEPT !.subtasks = Append(@, subtask_id)]

\* Task.remove_subtask: list.remove takes the first occurrence away.
remove_subtask(t, subtask_id) ==
    IF subtask_id \notin Range(t.subtasks) THEN t
    ELSE LET l == t.subtasks
             p == CHOOSE i \in 1..Len(l) : l[i] = subtask_id
                                          /\ \A j \in 1..(i - 1) : l[j] # subtask_id
         IN  [t EXCEPT !.subtasks = SubSeq(l, 1, p - 1) \o SubSeq(l, p + 1, Len(l))]

\* ------------------------------------------------------- the document
\* The file's content.  kind: "absent" (no file), "invalid" (not JSON),
\* "scalar" (a JSON number, string or null), "array" (tasks holds the
\* entries) or "object" (has_next_id / has_tasks say which keys it has).
Doc(kind, has_next_id, has_tasks, next_id, tasks) ==
    [kind |-> kind, has_next_id |-> has_next_id, has_tasks |-> has_tasks,
     next_id |-> next_id, tasks |-> tasks]

CurrentDoc(next_id, tasks) == Doc("object", TRUE, TRUE, next_id, tasks)
ArrayDoc(items) == Doc("array", FALSE, FALSE, 0, items)
PlainDoc(kind) == Doc(kind, FALSE, FALSE, 0, <<>>)

\* An array entry that is no JSON object.
NonDict == [nondict |-> TRUE]
IsDict(t) == "nondict" \notin DOMAIN t


\* ---------------------------------------------------- the index (a dict)
\* self._index: a Python dict from key to Task object, in insertion order.
\* An entry is [key, oid, task]: oid is the identity of the object stored
\* under the key, task the object's current value.
Entry(k, oid, t) == [key |-> k, oid |-> oid, task |-> t]

Keys(idx) == {idx[i].key : i \in 1..Len(idx)}

Pos(idx, k) == CHOOSE i \in 1..Len(idx) : idx[i].key = k

\* A list in the place of the dict: d[k] = v always adds an entry.
DictSetAppend(idx, k, oid, t) == Append(idx, Entry(k, oid, t))

\* d[k] = v: a present key keeps its place, a new key goes last.
DictSet(idx, k, oid, t) ==
    IF k \in Keys(idx)
    THEN [idx EXCEPT ![Pos(idx, k)] = Entry(k, oid, t)]
    ELSE Append(idx, Entry(k, oid, t))

\* del d[k]
DictDel(idx, k) ==
    LET p == Pos(idx, k)
    IN  [i \in 1..(Len(idx) - 1) |-> IF i < p THEN idx[i] ELSE idx[i + 1]]

\* {key(x): value(x) for x in items}: a later item with the same key replaces
\* the value and keeps the first one's place.
RECURSIVE DictOf(_)
DictOf(entries) ==
    IF entries = <<>> THEN <<>>
    ELSE LET n == Len(entries)
             e == entries[n]
         IN  DictSet(DictOf(SubSeq(entries, 1, n - 1)), e.key, e.oid, e.task)

\* Object identities are named canonically: an object in the index by the
\* first place it is stored at, an object outside the index by 0.
First(idx, o) == CHOOSE i \in 1..Len(idx) :
                    idx[i].oid = o /\ \A j \in 1..(i - 1) : idx[j].oid # o

NormIndex(idx) == [i \in 1..Len(idx) |-> [idx[i] EXCEPT !.oid = First(idx, idx[i].oid)]]

NormHeld(idx, h) ==
    [h EXCEPT !.oid = IF h.some /\ h.oid \in {idx[i].oid : i \in 1..Len(idx)}
                      THEN First(idx, h.oid) ELSE 0]

\* An identity no object of the index has.
FreshOid == MaxTasks + MaxArr + 2

\* The caller's reference: none, or the object oid with its value.
NoRef == [some |-> FALSE, oid |-> 0, task |-> [none |-> TRUE]]
Ref(oid, t) == [some |-> TRUE, oid |-> oid, task |-> t]

\* obj.field = value on the object oid: seen through every reference to it.
WriteIndex(idx, oid, t) ==
    [i \in 1..Len(idx) |-> IF idx[i].oid = oid THEN [idx[i] EXCEPT !.task = t] ELSE idx[i]]

WriteHeld(h, oid, t) == IF h.some /\ h.oid = oid THEN [h EXCEPT !.task = t] ELSE h

\* list(d.values()) as the objects' values.
Values(idx) == [i \in 1..Len(idx) |-> idx[i].task]

\* max((t.id for t in tasks), default=0)
RECURSIVE MaxTaskId(_)
MaxTaskId(tasks) ==
    IF tasks = <<>> THEN 0
    ELSE IF Len(tasks) = 1 THEN tasks[1].id
    ELSE Max(tasks[1].id, MaxTaskId(Tail(tasks)))

\* ------------------------------------------------------ TaskStorage
\* _read_data, lines 40-41: t["id"] = i for an entry without a valid id.
\* isinstance(x, int): a Python bool is an int.
EnsureValidId(t, i) ==
    IF "id" \notin DOMAIN t \/ t.id.type \notin {"int", "bool"} \/ t.id.val <= 0
    THEN [k \in DOMAIN t \cup {"id"} |-> IF k = "id" THEN IntJ(i) ELSE t[k]]
    ELSE t

\* _read_data, lines 33-43: the loop over enumerate(raw, start=1) from entry i on.
RECURSIVE Upgraded(_, _)
Upgraded(raw, i) ==
    IF i > Len(raw) THEN <<>>
    ELSE IF ~IsDict(raw[i]) THEN Upgraded(raw, i + 1)
    ELSE <<EnsureValidId(raw[i], i)>> \o Upgraded(raw, i + 1)

RECURSIVE MaxEntryId(_)
MaxEntryId(entries) ==
    IF entries = <<>> THEN 0
    ELSE Max(Head(entries).id.val, MaxEntryId(Tail(entries)))

\* _ensure_file
_ensure_file(f) == IF f.kind = "absent" THEN CurrentDoc(1, <<>>) ELSE f

\* _read_data: the data it returns and the file it leaves.
_read_data(f) ==
    IF f.kind = "array"
    THEN LET upgraded == Upgraded(f.tasks, 1)
             upgraded_data == CurrentDoc(MaxEntryId(upgraded) + 1, upgraded)
         IN  [data |-> upgraded_data, file |-> upgraded_data]
    ELSE IF f.kind = "object" /\ f.has_tasks /\ f.has_next_id
    THEN [data |-> f, file |-> f]
    ELSE [data |-> CurrentDoc(1, <<>>), file |-> f]

\* What building the index raises, "" when nothing: t["id"] on a non-object
\* is a TypeError, on an object without the key a KeyError; then from_dict.
EntryRaises(t) ==
    IF ~IsDict(t) THEN "TypeError"
    ELSE IF "id" \notin DOMAIN t THEN "KeyError"
    ELSE IF FromDictRaises(t) THEN "TypeError"
    ELSE ""

RECURSIVE IndexRaises(_)
IndexRaises(tasks) ==
    IF tasks = <<>> THEN ""
    ELSE IF EntryRaises(Head(tasks)) # "" THEN EntryRaises(Head(tasks))
    ELSE IndexRaises(Tail(tasks))

\* _load_index: the store and the file after it.  When it raises, the object
\* is left as lines 17-18 of __init__ made it.
_load_index(f, now) ==
    LET rd == _read_data(f)
        raises == IndexRaises(rd.data.tasks)
    IN  IF raises # ""
        THEN [file |-> rd.file, index |-> <<>>, next_id |-> 1, raised |-> raises]
        ELSE [file |-> rd.file,
              index |-> DictOf([i \in 1..Len(rd.data.tasks) |->
                                  Entry(rd.data.tasks[i].id.val, i,
                                        from_dict(rd.data.tasks[i], now))]),
              next_id |-> rd.data.next_id,
              raised |-> ""]

\* TaskStorage.__init__
TaskStorage(f, now) == _load_index(_ensure_file(f), now)

\* _save_index with _write_data: the document written.
_save_index(idx, next) ==
    CurrentDoc(next, [i \in 1..Len(idx) |-> to_dict(idx[i].task)])


\* A store with its file and the caller's reference:
\* S = [index, next_id, file, held].  An operation returns the store after it
\* and, as ret, what it returns to its caller.
Store(idx, next, f, h) == [index |-> idx, next_id |-> next, file |-> f, held |-> h]

With(S, r) == [index |-> S.index, next_id |-> S.next_id, file |-> S.file,
               held |-> S.held, ret |-> r]

\* What a call returns.
RetNone == [kind |-> "None"]
RetTask(t) == [kind |-> "Task", task |-> t]
RetBool(b) == [kind |-> "bool", value |-> b]
RetList(l) == [kind |-> "list", tasks |-> l]
RetRaise(e) == [kind |-> "raise", error |-> e]

\* The objects of list(self._index.values()), each [oid, task].
Obj(oid, t) == [oid |-> oid, task |-> t]
Objects(idx) == [i \in 1..Len(idx) |-> Obj(idx[i].oid, idx[i].task)]

\* load_tasks
load_tasks(S) == With(S, RetList(Values(S.index)))

\* save_tasks(tasks): tasks a list of objects.
save_tasks(S, tasks) ==
    LET idx == DictOf([i \in 1..Len(tasks) |->
                          Entry(tasks[i].task.id, tasks[i].oid, tasks[i].task)])
        next == MaxTaskId([i \in 1..Len(tasks) |-> tasks[i].task]) + 1
    IN  [index |-> idx, next_id |-> next, file |-> _save_index(idx, next),
         held |-> S.held, ret |-> RetNone]

\* An add_task that takes the smallest id no task of the index has.
add_task_fill_gap(S, text, priority, tags, now) ==
    LET new_id == CHOOSE i \in 1..(Len(S.index) + 1) :
                      /\ i \notin Keys(S.index)
                      /\ \A j \in 1..(i - 1) : j \in Keys(S.index)
        new_task == Task(new_id, text, priority, tags, now)
        idx == DictSet(S.index, new_id, FreshOid, new_task)
    IN  [index |-> idx, next_id |-> S.next_id + 1,
         file |-> _save_index(idx, S.next_id + 1),
         held |-> S.held, ret |-> RetTask(new_task)]

\* An add_task that counts from the tasks now in the index instead of from
\* self._next_id.
add_task_recount(S, text, priority, tags, now) ==
    LET new_id == MaxTaskId(Values(S.index)) + 1
        new_task == Task(new_id, text, priority, tags, now)
        idx == DictSet(S.index, new_id, FreshOid, new_task)
    IN  [index |-> idx, next_id |-> new_id + 1,
         file |-> _save_index(idx, new_id + 1),
         held |-> S.held, ret |-> RetTask(new_task)]

\* add_task: the new object has the identity FreshOid.
add_task(S, text, priority, tags, now) ==
    LET new_id == S.next_id
        new_task == Task(new_id, text, priority, tags, now)
        idx == DictSet(S.index, new_id, FreshOid, new_task)
    IN  [index |-> idx, next_id |-> S.next_id + 1,
         file |-> _save_index(idx, S.next_id + 1),
         held |-> S.held, ret |-> RetTask(new_task)]

\* get_task
get_task(S, task_id) ==
    IF task_id \in Keys(S.index)
    THEN With(S, RetTask(S.index[Pos(S.index, task_id)].task))
    ELSE With(S, RetNone)

\* update_task(task): task the object [oid, task].
update_task(S, task) ==
    IF task.task.id \in Keys(S.index)
    THEN LET idx == DictSet(S.index, task.task.id, task.oid, task.task)
         IN  [index |-> idx, next_id |-> S.next_id,
              file |-> _save_index(idx, S.next_id), held |-> S.held, ret |-> RetNone]
    ELSE With(S, RetNone)

\* A delete_task whose return True is outside the if.
delete_task_always_true(S, task_id) ==
    IF task_id \in Keys(S.index)
    THEN LET idx == DictDel(S.index, task_id)
         IN  [index |-> idx, next_id |-> S.next_id,
              file |-> _save_index(idx, S.next_id), held |-> S.held,
              ret |-> RetBool(TRUE)]
    ELSE With(S, RetBool(TRUE))

\* A delete_task that gives the id back to the allocator.
delete_task_reuse(S, task_id) ==
    IF task_id \in Keys(S.index)
    THEN LET idx == DictDel(S.index, task_id)
         IN  [index |-> idx, next_id |-> task_id,
              file |-> _save_index(idx, task_id), held |-> S.held,
              ret |-> RetBool(TRUE)]
    ELSE With(S, RetBool(FALSE))

\* delete_task
delete_task(S, task_id) ==
    IF task_id \in Keys(S.index)
    THEN LET idx == DictDel(S.index, task_id)
         IN  [index |-> idx, next_id |-> S.next_id,
              file |-> _save_index(idx, S.next_id), held |-> S.held,
              ret |-> RetBool(TRUE)]
    ELSE With(S, RetBool(FALSE))

IsCompleted(t) == t.completed
IsActive(t) == ~t.completed

\* get_active_tasks / get_completed_tasks
get_active_tasks(S) == With(S, RetList(SelectSeq(Values(S.index), IsActive)))
get_completed_tasks(S) == With(S, RetList(SelectSeq(Values(S.index), IsCompleted)))

\* A Python slice bound on a list of n items: a negative bound counts from the
\* end, and the bound is kept within 0..n.
SliceBound(b, n) ==
    IF b < 0 THEN (IF b + n < 0 THEN 0 ELSE b + n)
    ELSE IF b > n THEN n ELSE b

\* l[a:b]
PySlice(l, a, b) ==
    LET lo == SliceBound(a, Len(l))
        hi == SliceBound(b, Len(l))
    IN  IF lo >= hi THEN <<>> ELSE SubSeq(l, lo + 1, hi)

\* list_tasks
list_tasks(S, page, page_size) ==
    LET start == (page - 1) * page_size
        end == start + page_size
    IN  With(S, RetList(PySlice(Values(S.index), start, end)))

\* An iter_tasks that takes count for the end of the slice.
iter_tasks_count_as_end(S, start, count) ==
    With(S, RetList(PySlice(Values(S.index), start, count)))

\* iter_tasks: the tasks the generator yields when it is consumed at once.
iter_tasks(S, start, count) ==
    With(S, RetList(PySlice(Values(S.index), start, start + count)))

\* A generator that slices the index anew at every next().
iter_tasks_next_live(S, g) ==
    LET items == PySlice(Values(S.index), g.start, g.start + g.count)
    IN  IF g.pos < Len(items)
        THEN [gen |-> [g EXCEPT !.state = "running", !.items = items, !.pos = @ + 1],
              ret |-> RetTask(items[g.pos + 1])]
        ELSE [gen |-> [g EXCEPT !.state = "done", !.items = items],
              ret |-> RetRaise("StopIteration")]

\* next() on the generator iter_tasks returned.  The body of a generator
\* function starts to run at the first next(): the list of the for loop is
\* built then, from the index as it is then, and the later next() go through
\* that list.  g is the generator: state "created" (not started), "running"
\* or "done", the arguments, the list of the loop and the number of tasks
\* yielded.
iter_tasks_next(S, g) ==
    LET items == IF g.state = "created"
                 THEN PySlice(Values(S.index), g.start, g.start + g.count)
                 ELSE g.items
    IN  IF g.pos < Len(items)
        THEN [gen |-> [g EXCEPT !.state = "running", !.items = items, !.pos = @ + 1],
              ret |-> RetTask(items[g.pos + 1])]
        ELSE [gen |-> [g EXCEPT !.state = "done", !.items = items],
              ret |-> RetRaise("StopIteration")]


\* ------------------------------------------------- SQLiteTaskStorage
\* The database: the rows of table tasks in id order, and the AUTOINCREMENT
\* counter.  Task (models.py) defines neither to_row nor from_row, so the
\* calls of them in sqlite_storage.py raise AttributeError.

Db(rows, seq) == [rows |-> rows, seq |-> seq]

RowIds(db) == {db.rows[i].id : i \in 1..Len(db.rows)}

\* SQLiteTaskStorage.add_task: task.to_row() is evaluated before the INSERT.
sqlite_add_task(db, text, priority, tags, now) ==
    [db |-> db, ret |-> RetRaise("AttributeError")]

\* SQLiteTaskStorage.get_task
sqlite_get_task(db, task_id) ==
    [db |-> db,
     ret |-> IF task_id \in RowIds(db) THEN RetRaise("AttributeError") ELSE RetNone]

\* SQLiteTaskStorage.load_tasks: Task.from_row is called once per row.
sqlite_load_tasks(db) ==
    [db |-> db,
     ret |-> IF db.rows = <<>> THEN RetList(<<>>) ELSE RetRaise("AttributeError")]

\* SQLiteTaskStorage.update_task: task.to_row() is evaluated before the UPDATE.
sqlite_update_task(db, task) == [db |-> db, ret |-> RetRaise("AttributeError")]

\* SQLiteTaskStorage.delete_task
sqlite_delete_task(db, task_id) ==
    LET NotIt(r) == r.id # task_id
    IN  [db |-> Db(SelectSeq(db.rows, NotIt), db.seq),
         ret |-> RetBool(task_id \in RowIds(db))]

\* SQLiteTaskStorage.get_active_tasks / get_completed_tasks
sqlite_get_by_completed(db, completed) ==
    LET Match(r) == r.completed = completed
    IN  [db |-> db,
         ret |-> IF SelectSeq(db.rows, Match) = <<>> THEN RetList(<<>>)
                 ELSE RetRaise("AttributeError")]

\* SELECT ... ORDER BY id LIMIT limit OFFSET offset: a negative LIMIT is no
\* limit, a negative OFFSET is 0.
SqlPage(rows, limit, offset) ==
    LET from == IF offset < 0 THEN 0 ELSE offset
        upto == IF limit < 0 THEN Len(rows)
                ELSE IF from + limit > Len(rows) THEN Len(rows) ELSE from + limit
    IN  IF from >= upto THEN <<>> ELSE SubSeq(rows, from + 1, upto)

\* SQLiteTaskStorage.list_tasks: Task.from_row is called once per row.
sqlite_list_tasks(db, page, page_size) ==
    LET offset == (page - 1) * page_size
    IN  [db |-> db,
         ret |-> IF SqlPage(db.rows, page_size, offset) = <<>> THEN RetList(<<>>)
                 ELSE RetRaise("AttributeError")]

\* SQLiteTaskStorage.iter_tasks, consumed at once.
sqlite_iter_tasks(db, start, count) ==
    [db |-> db,
     ret |-> IF SqlPage(db.rows, count, start) = <<>> THEN RetList(<<>>)
             ELSE RetRaise("AttributeError")]

\* ---------------------------------------------------- ArchiveStorage
\* archive_storage.py: the store keeps nothing in memory; every call reads the
\* file's tasks (A, the dicts as written) with Task.from_dict and writes them
\* with Task.to_dict.

\* An add_task that gives the task the next place in the archive as its id.
archive_add_task_renumbers(A, task, now) ==
    [i \in 1..(Len(A) + 1) |->
        IF i <= Len(A) THEN to_dict(from_dict(A[i], now))
        ELSE to_dict([task EXCEPT !.id = Len(A) + 1])]

\* ArchiveStorage.add_task: the file's tasks after it.
archive_add_task(A, task, now) ==
    [i \in 1..(Len(A) + 1) |->
        IF i <= Len(A) THEN to_dict(from_dict(A[i], now)) ELSE to_dict(task)]

\* ArchiveStorage.get_task: the first task of the file with the id, or None.
archive_get_task(A, task_id, now) ==
    LET found == {i \in 1..Len(A) : from_dict(A[i], now).id = task_id}
    IN  IF found = {} THEN RetNone
        ELSE RetTask(from_dict(A[CHOOSE i \in found : \A j \in found : i <= j], now))

\* ArchiveStorage.remove_task: the file's tasks after it and what it returns.
archive_remove_task(A, task_id, now) ==
    LET found == {i \in 1..Len(A) : from_dict(A[i], now).id = task_id}
        p == CHOOSE i \in found : \A j \in found : i <= j
    IN  IF found = {} THEN [archived |-> A, ret |-> RetNone]
        ELSE [archived |-> [i \in 1..(Len(A) - 1) |->
                               to_dict(from_dict(A[IF i < p THEN i ELSE i + 1], now))],
              ret |-> RetTask(from_dict(A[p], now))]

\* ----------------------------------------------------- TemplateStorage
\* template_storage.py: one file <name>.json per template in the template
\* directory.  T is the directory: file name |-> the file's content.  A name
\* and a file name are sequences of characters.

\* The template names of the model.
TemplateNames == SeqsUpTo({"-", "a"}, MaxName) \ {<<>>}

\* Python's sorted(...) of a set of strings.  s < t on strings: the first
\* differing character decides by its code point (ord), and a proper prefix
\* is smaller.
SortedStrings(D) ==
    LET ord(c) == CASE c = "-" -> 45
                    [] c = "." -> 46
                    [] c = "a" -> 97
                    [] c = "j" -> 106
                    [] c = "n" -> 110
                    [] c = "o" -> 111
                    [] c = "s" -> 115
        RECURSIVE StrLess(_, _)
        StrLess(s, t) ==
            IF t = <<>> THEN FALSE
            ELSE IF s = <<>> THEN TRUE
            ELSE IF Head(s) # Head(t) THEN ord(Head(s)) < ord(Head(t))
            ELSE StrLess(Tail(s), Tail(t))
    IN  [k \in 1..Cardinality(D) |->
            CHOOSE s \in D : Cardinality({t \in D : StrLess(t, s)}) = k - 1]

\* TemplateStorage._template_path: the file of a template.
template_path(name) == name \o <<".", "j", "s", "o", "n">>

\* A save_template that leaves an existing file alone.
save_template_keeps_first(T, task, name) ==
    LET path == template_path(name)
        data == [text |-> task.text, priority |-> task.priority,
                 tags |-> task.tags, links |-> task.links]
    IN  [p \in DOMAIN T \cup {path} |-> IF p \in DOMAIN T THEN T[p] ELSE data]

\* TemplateStorage.save_template: the directory after it.
save_template(T, task, name) ==
    LET path == template_path(name)
        data == [text |-> task.text, priority |-> task.priority,
                 tags |-> task.tags, links |-> task.links]
    IN  [p \in DOMAIN T \cup {path} |-> IF p = path THEN data ELSE T[p]]

\* TemplateStorage.load_template: the file's content, or None without a file.
load_template(T, name) ==
    LET path == template_path(name)
    IN  IF path \notin DOMAIN T THEN RetNone ELSE [kind |-> "dict", data |-> T[path]]

\* TemplateStorage.list_templates: the stems of the sorted paths (the stem of
\* a template's file is its name without ".json").
list_templates(T) ==
    LET paths == SortedStrings(DOMAIN T)
    IN  [k \in 1..Len(paths) |-> SubSeq(paths[k], 1, Len(paths[k]) - 5)]

\* TemplateStorage.delete_template: the directory after it and what it returns.
delete_template(T, name) ==
    LET path == template_path(name)
    IN  IF path \in DOMAIN T
        THEN [templates |-> [p \in DOMAIN T \ {path} |-> T[p]], ret |-> RetBool(TRUE)]
        ELSE [templates |-> T, ret |-> RetBool(FALSE)]

\* ------------------------------------------------------ CLI commands
\* cli.py: each command works on the module's store object.  A command
\* gets its task with get_task, so it writes the index's own object.

\* str.strip(): the text without its leading and trailing blanks.
RECURSIVE Strip(_)
Strip(s) ==
    IF s = <<>> THEN s
    ELSE IF Head(s) = " " THEN Strip(Tail(s))
    ELSE IF s[Len(s)] = " " THEN Strip(SubSeq(s, 1, Len(s) - 1))
    ELSE s

\* An add that refuses the empty text only.
add_accepts_blank(S, task, priority, default_tags, tag, attach, link, now) ==
    IF task = <<>>
    THEN With(S, [kind |-> "exit", code |-> 1])
    ELSE LET given == default_tags \o tag
             first == {i \in 1..Len(given) : \A j \in 1..(i - 1) : given[j] # given[i]}
             Nth(k) == CHOOSE i \in first : Cardinality({j \in first : j <= i}) = k
             tags == [k \in 1..Cardinality(first) |-> given[Nth(k)]]
             a == add_task(S, task, priority, tags, now)
             new_task == [a.ret.task EXCEPT !.attachments = @ \o attach,
                                            !.links = @ \o link]
             S1 == Store(WriteIndex(a.index, FreshOid, new_task), a.next_id, a.file,
                         a.held)
             u == update_task(S1, Obj(FreshOid, new_task))
         IN  [u EXCEPT !.ret = [kind |-> "exit", code |-> 0]]

\* add: task is the text, default_tags the tags of the configuration, tag,
\* attach and link the options (attach: the copies of the files that exist).
\* It ends with sys.exit(1) on a text that is empty or blank, and otherwise
\* returns, which is exit status 0.
add(S, task, priority, default_tags, tag, attach, link, now) ==
    IF task = <<>> \/ Strip(task) = <<>>
    THEN With(S, [kind |-> "exit", code |-> 1])
    ELSE LET given == default_tags \o tag
             first == {i \in 1..Len(given) : \A j \in 1..(i - 1) : given[j] # given[i]}
             Nth(k) == CHOOSE i \in first : Cardinality({j \in first : j <= i}) = k
             tags == [k \in 1..Cardinality(first) |-> given[Nth(k)]]
             a == add_task(S, task, priority, tags, now)
             new_task == [a.ret.task EXCEPT !.attachments = @ \o attach,
                                            !.links = @ \o link]
             S1 == Store(WriteIndex(a.index, FreshOid, new_task), a.next_id, a.file,
                         a.held)
             u == update_task(S1, Obj(FreshOid, new_task))
         IN  [u EXCEPT !.ret = [kind |-> "exit", code |-> 0]]

\* edit: text is <<>> and priority is "" for an option that is not given.  The
\* function writes the object of the index and then reads the name due, which
\* nothing defines: it raises NameError before its update_task.
edit(S, task_id, text, priority, add_tags, remove_tags) ==
    IF task_id \notin Keys(S.index) THEN With(S, [kind |-> "exit", code |-> 0])
    ELSE LET e == S.index[Pos(S.index, task_id)]
             RECURSIVE Added(_, _)
             Added(tags, more) ==
                 IF more = <<>> THEN tags
                 ELSE Added(IF Head(more) \in Range(tags) THEN tags
                            ELSE Append(tags, Head(more)), Tail(more))
             RemoveFirst(tags, x) ==
                 LET p == CHOOSE i \in 1..Len(tags) :
                              tags[i] = x /\ \A j \in 1..(i - 1) : tags[j] # x
                 IN  SubSeq(tags, 1, p - 1) \o SubSeq(tags, p + 1, Len(tags))
             RECURSIVE Removed(_, _)
             Removed(tags, less) ==
                 IF less = <<>> THEN tags
                 ELSE Removed(IF Head(less) \in Range(tags) THEN RemoveFirst(tags, Head(less))
                              ELSE tags, Tail(less))
             t == [e.task EXCEPT !.text = IF text # <<>> THEN text ELSE @,
                                 !.priority = IF priority # "" THEN priority ELSE @,
                                 !.tags = Removed(Added(@, add_tags), remove_tags)]
         IN  [index |-> WriteIndex(S.index, e.oid, t), next_id |-> S.next_id,
              file |-> S.file, held |-> WriteHeld(S.held, e.oid, t),
              ret |-> RetRaise("NameError")]

\* A done that marks the task again when it is completed already.
done_again(S, task_id, now) ==
    IF task_id \notin Keys(S.index) THEN S
    ELSE LET e == S.index[Pos(S.index, task_id)]
             t == mark_done(e.task, now)
             S1 == Store(WriteIndex(S.index, e.oid, t), S.next_id, S.file,
                         WriteHeld(S.held, e.oid, t))
             r == update_task(S1, Obj(e.oid, t))
         IN  Store(r.index, r.next_id, r.file, r.held)

\* done
done(S, task_id, now) ==
    IF task_id \notin Keys(S.index) THEN S
    ELSE LET e == S.index[Pos(S.index, task_id)]
         IN  IF e.task.completed THEN S
             ELSE LET t == mark_done(e.task, now)
                      S1 == Store(WriteIndex(S.index, e.oid, t), S.next_id, S.file,
                                  WriteHeld(S.held, e.oid, t))
                      r == update_task(S1, Obj(e.oid, t))
                  IN  Store(r.index, r.next_id, r.file, r.held)

\* An undo that clears completed and leaves completed_at.
undo_keeps_completed_at(S, task_id) ==
    IF task_id \notin Keys(S.index) THEN S
    ELSE LET e == S.index[Pos(S.index, task_id)]
         IN  IF ~e.task.completed THEN S
             ELSE LET t == [e.task EXCEPT !.completed = FALSE]
                      S1 == Store(WriteIndex(S.index, e.oid, t), S.next_id, S.file,
                                  WriteHeld(S.held, e.oid, t))
                      r == update_task(S1, Obj(e.oid, t))
                  IN  Store(r.index, r.next_id, r.file, r.held)

\* undo
undo(S, task_id) ==
    IF task_id \notin Keys(S.index) THEN S
    ELSE LET e == S.index[Pos(S.index, task_id)]
         IN  IF ~e.task.completed THEN S
             ELSE LET t == [e.task EXCEPT !.completed = FALSE, !.completed_at = None]
                      S1 == Store(WriteIndex(S.index, e.oid, t), S.next_id, S.file,
                                  WriteHeld(S.held, e.oid, t))
                      r == update_task(S1, Obj(e.oid, t))
                  IN  Store(r.index, r.next_id, r.file, r.held)

\* priority (the command): the function sets the priority and calls
\* update_task, twice.
priority_command(S, task_id, new) ==
    IF task_id \notin Keys(S.index) THEN S
    ELSE LET e == S.index[Pos(S.index, task_id)]
             t == [e.task EXCEPT !.priority = new]
             S1 == Store(WriteIndex(S.index, e.oid, t), S.next_id, S.file,
                         WriteHeld(S.held, e.oid, t))
             r1 == update_task(S1, Obj(e.oid, t))
             r2 == update_task(Store(r1.index, r1.next_id, r1.file, r1.held),
                               Obj(e.oid, t))
         IN  Store(r2.index, r2.next_id, r2.file, r2.held)

\* done-all: the loop over task_ids does to each what done does.
RECURSIVE done_all(_, _, _)
done_all(S, task_ids, now) ==
    IF task_ids = <<>> THEN S
    ELSE done_all(done(S, Head(task_ids), now), Tail(task_ids), now)

\* An rm that deletes whether or not create_backup returned.
rm_without_backup(S, task_id, confirmed, backup_ok) ==
    IF task_id \notin Keys(S.index) THEN S
    ELSE IF ~confirmed THEN S
    ELSE LET r == delete_task(S, task_id)
         IN  Store(r.index, r.next_id, r.file, r.held)

\* rm: confirmed says the user agreed (or gave --confirm), backup_ok that
\* create_backup returned.
rm(S, task_id, confirmed, backup_ok) ==
    IF task_id \notin Keys(S.index) THEN S
    ELSE IF ~confirmed THEN S
    ELSE IF ~backup_ok THEN S
    ELSE LET r == delete_task(S, task_id)
         IN  Store(r.index, r.next_id, r.file, r.held)

ObjCompleted(o) == o.task.completed
ObjActive(o) == ~o.task.completed

\* A clear that keeps the class of tasks it was to remove.
clear_the_other_class(S, completed, confirmed, backup_ok) ==
    LET tasks == Objects(S.index)
        to_clear == IF completed THEN SelectSeq(tasks, ObjCompleted)
                    ELSE SelectSeq(tasks, ObjActive)
    IN  IF to_clear = <<>> THEN S
        ELSE IF ~confirmed THEN S
        ELSE IF ~backup_ok THEN S
        ELSE LET r == save_tasks(S, to_clear)
             IN  Store(r.index, r.next_id, r.file, r.held)

\* clear
clear(S, completed, confirmed, backup_ok) ==
    LET tasks == Objects(S.index)
        to_clear == IF completed THEN SelectSeq(tasks, ObjCompleted)
                    ELSE SelectSeq(tasks, ObjActive)
        remaining == IF completed THEN SelectSeq(tasks, ObjActive)
                     ELSE SelectSeq(tasks, ObjCompleted)
    IN  IF to_clear = <<>> THEN S
        ELSE IF ~confirmed THEN S
        ELSE IF ~backup_ok THEN S
        ELSE LET r == save_tasks(S, remaining)
             IN  Store(r.index, r.next_id, r.file, r.held)

\* archive: the store and the archive's file after it; it returns the task it
\* archived, None when it archived nothing.
archive(S, A, task_id, now) ==
    IF task_id \notin Keys(S.index)
    THEN [store |-> S, archived |-> A, ret |-> RetNone]
    ELSE IF archive_get_task(A, task_id, now) # RetNone
    THEN [store |-> S, archived |-> A, ret |-> RetNone]
    ELSE LET task == S.index[Pos(S.index, task_id)].task
             r == delete_task(S, task_id)
         IN  [store |-> Store(r.index, r.next_id, r.file, r.held),
              archived |-> archive_add_task(A, task, now),
              ret |-> RetTask(task)]

\* unarchive: TaskStorage has no method save_task, so the call of it raises
\* AttributeError before archive.remove_task is reached.
unarchive(S, A, task_id, now) ==
    IF archive_get_task(A, task_id, now) = RetNone
    THEN [store |-> S, archived |-> A, ret |-> RetNone]
    ELSE IF task_id \in Keys(S.index)
    THEN [store |-> S, archived |-> A, ret |-> RetNone]
    ELSE [store |-> S, archived |-> A, ret |-> RetRaise("AttributeError")]

\* sorted(tasks, key=lambda t: t.id): stable.
RECURSIVE InsertById(_, _)
InsertById(o, sorted) ==
    IF sorted = <<>> THEN <<o>>
    ELSE IF Head(sorted).task.id <= o.task.id
         THEN <<Head(sorted)>> \o InsertById(o, Tail(sorted))
         ELSE <<o>> \o sorted

RECURSIVE SortedById(_)
SortedById(objs) ==
    IF objs = <<>> THEN <<>>
    ELSE InsertById(objs[Len(objs)], SortedById(SubSeq(objs, 1, Len(objs) - 1)))

\* A move that makes a new task of the source's text, priority and tags.
move_as_new_task(S, from_id, to_id) ==
    IF from_id = to_id THEN S
    ELSE IF from_id \notin Keys(S.index) THEN S
    ELSE IF to_id \in Keys(S.index) THEN S
    ELSE LET source == S.index[Pos(S.index, from_id)]
             NotFrom(o) == o.task.id # from_id
             kept == SelectSeq(Objects(S.index), NotFrom)
             moved == Task(to_id, source.task.text, source.task.priority,
                           source.task.tags, source.task.created_at)
             r == save_tasks(Store(S.index, S.next_id, S.file,
                                   WriteHeld(S.held, source.oid, moved)),
                             SortedById(Append(kept, Obj(source.oid, moved))))
         IN  Store(r.index, r.next_id, r.file, r.held)

\* move.  After the first save_tasks no key of the index is from_id (the list
\* holds no task with that id), so the second half of the function returns at
\* its first get_task.
move(S, from_id, to_id) ==
    IF from_id = to_id THEN S
    ELSE IF from_id \notin Keys(S.index) THEN S
    ELSE IF to_id \in Keys(S.index) THEN S
    ELSE LET source == S.index[Pos(S.index, from_id)]
             NotFrom(o) == o.task.id # from_id
             kept == SelectSeq(Objects(S.index), NotFrom)
             moved == [source.task EXCEPT !.id = to_id]
             tasks == [i \in 1..Len(kept) |->
                          IF kept[i].oid = source.oid THEN Obj(source.oid, moved)
                          ELSE kept[i]]
             r == save_tasks(Store(S.index, S.next_id, S.file,
                                   WriteHeld(S.held, source.oid, moved)),
                             SortedById(Append(tasks, Obj(source.oid, moved))))
         IN  Store(r.index, r.next_id, r.file, r.held)


\* ---------------------------------------------------------- the state
VARIABLES
    file,          \* the content of the JSON store's file
    index,         \* TaskStorage._index
    next_id,       \* TaskStorage._next_id
    raised,        \* what the last TaskStorage(...) raised, "" when it returned
    held,          \* the Task object the caller holds a reference to
    db,            \* the SQLite store's database
    op,            \* the last operation
    ret,           \* what it returned on the JSON store
    sqlRet,        \* what it returned on the SQLite store
    clock,         \* datetime.now()
    file0,         \* the file the first TaskStorage(...) was given
    allocated,     \* the largest ID add_task returned since the last save_tasks, or 0
    deleted,       \* the IDs of the tasks delete_task, rm and clear removed so far
    deletedSince,  \* the IDs delete_task and rm removed since the last save_tasks
    archived,      \* the tasks of the archive store's file, as to_dict wrote them
    templates,     \* the template directory: file name |-> the file's content
    savedAs,       \* template name |-> the task last saved under it and not deleted since
    gen,           \* the generator object iter_tasks gave the caller
    archiving      \* the id an archive command has written to the archive and not yet
                   \* deleted from the store, 0 outside such a command

vars == <<file, index, next_id, raised, held, db, op, ret, sqlRet, clock, file0,
          allocated, deleted, deletedSince, archived, templates, savedAs, gen, archiving>>

Cur == Store(index, next_id, file, held)

\* ------------------------------------------------- the files to start from
LegacyEntries ==
    { [id |-> IntJ(1), text |-> <<"a">>],
      [id |-> IntJ(2), text |-> <<"b">>, created_at |-> 1],
      [text |-> <<"a">>],
      [id |-> IntJ(1)],
      [id |-> TrueJ, text |-> <<"a">>],
      [id |-> IntJ(0), text |-> <<"b">>],
      [id |-> StrJ, text |-> <<"a">>],
      NonDict }

\* In a current-shape document the model keeps to ids that are numbers.
CurrentEntries == {e \in LegacyEntries : IsDict(e) => ("id" \in DOMAIN e => e.id # StrJ)}

InitialFiles ==
    {PlainDoc("absent"), PlainDoc("invalid"), PlainDoc("scalar")}
    \cup {ArrayDoc(a) : a \in SeqsUpTo(LegacyEntries, MaxArr)}
    \cup {CurrentDoc(n, a) : n \in 1..MaxInitNextId, a \in SeqsUpTo(CurrentEntries, MaxArr)}
    \cup {Doc("object", FALSE, TRUE, 0, <<>>), Doc("object", TRUE, FALSE, 1, <<>>),
          Doc("object", FALSE, FALSE, 0, <<>>)}

InitFrom(files) ==
    \E f \in files :
        LET st == TaskStorage(f, 1)
        IN  /\ clock = 1
            /\ file0 = f
            /\ file = st.file
            /\ index = NormIndex(st.index)
            /\ next_id = st.next_id
            /\ raised = st.raised
            /\ held = NoRef
            /\ db = Db(<<>>, 0)
            /\ op = "TaskStorage"
            /\ ret = RetNone
            /\ sqlRet = RetNone
            /\ allocated = 0
            /\ deleted = {}
            /\ deletedSince = {}
            /\ archived = <<>>
            /\ templates = <<>>
            /\ savedAs = <<>>
            /\ gen = [state |-> "none", start |-> 0, count |-> 0, items |-> <<>>, pos |-> 0,
                      at_call |-> <<>>, at_first |-> <<>>, yielded |-> <<>>]
            /\ archiving = 0

\* The files the runs of operations start from: no file, a file that is not
\* JSON, a legacy array, and current-shape documents whose next_id is not
\* above their ids.
StartFiles ==
    {PlainDoc("absent"), PlainDoc("invalid"),
     ArrayDoc(<<[id |-> IntJ(2), text |-> <<"b">>, created_at |-> 1]>>),
     CurrentDoc(1, <<[id |-> IntJ(1), text |-> <<"a">>, created_at |-> 1]>>),
     CurrentDoc(2, <<[id |-> IntJ(2), text |-> <<"b">>, created_at |-> 1],
                     [id |-> IntJ(1), text |-> <<"a">>, created_at |-> 1]>>)}

Init == InitFrom(StartFiles)

InitAnyFile == InitFrom(InitialFiles)

InitEmpty == InitFrom({PlainDoc("absent")})

\* The Task objects a caller can hold: every field with a value that is its
\* default and one that is not.
ValidTasks ==
    [id : Ids, text : Texts, priority : {"medium", "high"},
     completed : BOOLEAN, created_at : Times, completed_at : {None} \cup Times,
     tags : {<<>>, <<"x">>}, attachments : {<<>>, <<"f">>}, links : {<<>>, <<"u">>},
     is_global : BOOLEAN, parent_id : {None} \cup Ids,
     subtasks : {<<>>, <<1>>}, notes : {"", "n"}]

\* An empty store and a caller holding a Task object of its own.
InitTask ==
    \E t \in ValidTasks :
        LET st == TaskStorage(PlainDoc("absent"), 1)
        IN  /\ clock = 1
            /\ file0 = PlainDoc("absent")
            /\ file = st.file
            /\ index = st.index
            /\ next_id = st.next_id
            /\ raised = st.raised
            /\ held = Ref(0, t)
            /\ db = Db(<<>>, 0)
            /\ op = "Task"
            /\ ret = RetNone
            /\ sqlRet = RetNone
            /\ allocated = 0
            /\ deleted = {}
            /\ deletedSince = {}
            /\ archived = <<>>
            /\ templates = <<>>
            /\ savedAs = <<>>
            /\ gen = [state |-> "none", start |-> 0, count |-> 0, items |-> <<>>, pos |-> 0,
                      at_call |-> <<>>, at_first |-> <<>>, yielded |-> <<>>]
            /\ archiving = 0

\* ------------------------------------------------------------ actions
\* The store after a call that returned r, the caller then holding h.
Becomes(r, h) ==
    /\ index' = NormIndex(r.index)
    /\ next_id' = r.next_id
    /\ file' = r.file
    /\ held' = NormHeld(r.index, h)
    /\ UNCHANGED <<raised, clock, file0, archived, templates, savedAs, gen, archiving>>

Ghosts(a, d, ds) ==
    /\ allocated' = a
    /\ deleted' = d
    /\ deletedSince' = ds

Alive == raised = ""

\* A new process opens the file: TaskStorage(path).  The caller's object
\* belongs to no index any more.
Reopen ==
    /\ LET st == TaskStorage(file, clock)
       IN  /\ index' = NormIndex(st.index)
           /\ next_id' = st.next_id
           /\ file' = st.file
           /\ raised' = st.raised
    /\ held' = [held EXCEPT !.oid = 0]
    /\ op' = "TaskStorage"
    /\ ret' = RetNone
    /\ sqlRet' = RetNone
    /\ UNCHANGED <<db, clock, file0, archived, templates, savedAs, gen, archiving, allocated, deleted, deletedSince>>

\* Time passes.
Tick ==
    /\ clock < MaxTime
    /\ clock' = clock + 1
    /\ UNCHANGED <<file, index, next_id, raised, held, db, op, ret, sqlRet, file0, archived, templates, savedAs, gen, archiving,
                   allocated, deleted, deletedSince>>

\* add_task(text) on both stores.
AddTask ==
    /\ Alive
    /\ Len(index) < MaxTasks
    /\ next_id <= MaxId
    /\ \E text \in Texts :
        LET r == add_task(Cur, text, "medium", <<>>, clock)
            q == sqlite_add_task(db, text, "medium", <<>>, clock)
        IN  /\ Becomes(r, Ref(FreshOid, r.ret.task))
            /\ ret' = r.ret
            /\ db' = q.db
            /\ sqlRet' = q.ret
            /\ Ghosts(Max(allocated, r.ret.task.id), deleted, deletedSince)
    /\ op' = "add_task"

\* t = get_task(task_id) on both stores; the caller keeps the object.
GetTask ==
    /\ Alive
    /\ \E task_id \in Ids :
        LET r == get_task(Cur, task_id)
            q == sqlite_get_task(db, task_id)
        IN  /\ Becomes(r, IF r.ret.kind = "Task"
                          THEN Ref(index[Pos(index, task_id)].oid, r.ret.task)
                          ELSE held)
            /\ ret' = r.ret
            /\ db' = q.db
            /\ sqlRet' = q.ret
    /\ op' = "get_task"
    /\ UNCHANGED <<allocated, deleted, deletedSince>>

\* update_task(t) with the object the caller holds.
UpdateTask ==
    /\ Alive
    /\ held.some
    /\ LET task == Obj(IF held.oid = 0 THEN FreshOid ELSE held.oid, held.task)
           r == update_task(Cur, task)
           q == sqlite_update_task(db, held.task)
       IN  /\ Becomes(r, Ref(task.oid, task.task))
           /\ ret' = r.ret
           /\ db' = q.db
           /\ sqlRet' = q.ret
    /\ op' = "update_task"
    /\ UNCHANGED <<allocated, deleted, deletedSince>>

\* delete_task(task_id) on both stores.
DeleteTask ==
    /\ Alive
    /\ \E task_id \in Ids :
        LET r == delete_task(Cur, task_id)
            q == sqlite_delete_task(db, task_id)
            gone == IF r.ret.value THEN {task_id} ELSE {}
        IN  /\ Becomes(r, held)
            /\ ret' = r.ret
            /\ db' = q.db
            /\ sqlRet' = q.ret
            /\ Ghosts(allocated, deleted \cup gone, deletedSince \cup gone)
    /\ op' = "delete_task"

\* save_tasks(tasks): some of the objects of load_tasks(), in their order,
\* with or without the caller's object at the end.
SaveTasks ==
    /\ Alive
    /\ \E keep \in SUBSET (1..Len(index)), with_held \in BOOLEAN :
        /\ with_held => held.some
        /\ LET objs == Objects(index)
               Kept(o) == \E i \in keep : objs[i] = o
               mine == Obj(IF held.oid = 0 THEN FreshOid ELSE held.oid, held.task)
               tasks == SelectSeq(objs, Kept) \o (IF with_held THEN <<mine>> ELSE <<>>)
               r == save_tasks(Cur, tasks)
           IN  /\ r.next_id <= MaxId + 1
               /\ Becomes(r, IF with_held THEN Ref(mine.oid, mine.task) ELSE held)
               /\ ret' = r.ret
               /\ Ghosts(0, deleted, {})
    /\ op' = "save_tasks"
    /\ UNCHANGED <<db, sqlRet>>

\* The lists of Task objects a caller makes itself, Task(id=i, text=x) at the
\* time now: any ids, the same id twice included.
CallerLists(now) ==
    SeqsUpTo({Task(i, x, "medium", <<>>, now) : i \in Ids, x \in Texts}, MaxTasks)

\* The objects of such a list, each with an identity of its own.
NewObjects(L) == [i \in 1..Len(L) |-> Obj(FreshOid + i, L[i])]

\* save_tasks(L) with a list of the caller's own Task objects.
SaveList ==
    /\ Alive
    /\ \E L \in CallerLists(clock) :
        LET r == save_tasks(Cur, NewObjects(L))
        IN  /\ Becomes(r, held)
            /\ ret' = r.ret
            /\ Ghosts(0, deleted, {})
    /\ op' = "save_tasks"
    /\ UNCHANGED <<db, sqlRet>>

\* load_tasks(), get_active_tasks(), get_completed_tasks() on both stores.
ReadTasks ==
    /\ Alive
    /\ \/ /\ ret' = load_tasks(Cur).ret
          /\ sqlRet' = sqlite_load_tasks(db).ret
          /\ op' = "load_tasks"
       \/ /\ ret' = get_active_tasks(Cur).ret
          /\ sqlRet' = sqlite_get_by_completed(db, FALSE).ret
          /\ op' = "get_active_tasks"
       \/ /\ ret' = get_completed_tasks(Cur).ret
          /\ sqlRet' = sqlite_get_by_completed(db, TRUE).ret
          /\ op' = "get_completed_tasks"
    /\ UNCHANGED <<file, index, next_id, raised, held, db, clock, file0, archived, templates, savedAs, gen, archiving,
                   allocated, deleted, deletedSince>>

\* list_tasks(page, page_size) on both stores.
ListTasks ==
    /\ Alive
    /\ \E page \in Pages, page_size \in PageSizes :
        /\ ret' = list_tasks(Cur, page, page_size).ret
        /\ sqlRet' = sqlite_list_tasks(db, page, page_size).ret
    /\ op' = "list_tasks"
    /\ UNCHANGED <<file, index, next_id, raised, held, db, clock, file0, archived, templates, savedAs, gen, archiving,
                   allocated, deleted, deletedSince>>

\* list(iter_tasks(start, count)) on both stores.
IterTasks ==
    /\ Alive
    /\ \E start \in Starts, count \in Counts :
        /\ ret' = iter_tasks(Cur, start, count).ret
        /\ sqlRet' = sqlite_iter_tasks(db, start, count).ret
    /\ op' = "iter_tasks"
    /\ UNCHANGED <<file, index, next_id, raised, held, db, clock, file0, archived, templates, savedAs, gen, archiving,
                   allocated, deleted, deletedSince>>

\* g = iter_tasks(start, count): the caller gets a generator that has not
\* started.  at_call, at_first and yielded record history: the slice of the
\* store at this call, the slice at the first next(), and the tasks the next()
\* have returned.
IterCall(starts, counts) ==
    /\ Alive
    /\ \E start \in starts, count \in counts :
        gen' = [state |-> "created", start |-> start, count |-> count, items |-> <<>>,
                pos |-> 0, at_call |-> iter_tasks(Cur, start, count).ret.tasks,
                at_first |-> <<>>, yielded |-> <<>>]
    /\ op' = "g = iter_tasks"
    /\ ret' = RetNone
    /\ sqlRet' = RetNone
    /\ UNCHANGED <<file, index, next_id, raised, held, db, clock, file0, archived, templates,
                   savedAs, archiving, allocated, deleted, deletedSince>>

\* next(g) on a generator that is not exhausted.
IterNext ==
    /\ Alive
    /\ gen.state \in {"created", "running"}
    /\ LET r == iter_tasks_next(Cur, gen)
       IN  /\ gen' = [r.gen EXCEPT
                        !.at_first = IF gen.state = "created"
                                     THEN iter_tasks(Cur, gen.start, gen.count).ret.tasks
                                     ELSE @,
                        !.yielded = IF r.ret.kind = "Task" THEN Append(@, r.ret.task) ELSE @]
           /\ ret' = r.ret
    /\ op' = "next(g)"
    /\ sqlRet' = RetNone
    /\ UNCHANGED <<file, index, next_id, raised, held, db, clock, file0, archived, templates,
                   savedAs, archiving, allocated, deleted, deletedSince>>

\* The caller writes a field of the object it holds.
CallerWrites(t) ==
    /\ index' = WriteIndex(index, held.oid, t)
    /\ held' = [held EXCEPT !.task = t]
    /\ ret' = RetNone
    /\ sqlRet' = RetNone
    /\ UNCHANGED <<file, next_id, raised, db, clock, file0, archived, templates, savedAs, gen, archiving, allocated, deleted,
                   deletedSince>>

\* t.text = text
CallerSetText ==
    /\ Alive
    /\ held.some
    /\ \E text \in Texts : text # held.task.text
                           /\ CallerWrites([held.task EXCEPT !.text = text])
    /\ op' = "t.text="

\* t.id = i
CallerSetId ==
    /\ Alive
    /\ held.some
    /\ \E i \in Ids : i # held.task.id
                           /\ CallerWrites([held.task EXCEPT !.id = i])
    /\ op' = "t.id="

\* The caller writes the extended fields of its object: attachments and links
\* as the edit command does, and with them is_global, parent_id, subtasks and
\* notes.
CallerSetExtended ==
    /\ Alive
    /\ held.some
    /\ \E parent \in Ids \ {held.task.id}, x \in {"n", "m"} :
        /\ x # held.task.notes
        /\ CallerWrites([held.task EXCEPT !.attachments = <<"f">>, !.links = <<"u">>,
                                          !.is_global = TRUE, !.parent_id = parent,
                                          !.subtasks = <<parent>>, !.notes = x])
    /\ op' = "t.notes="

\* t.mark_done()
CallerMarkDone ==
    /\ Alive
    /\ held.some
    /\ CallerWrites(mark_done(held.task, clock))
    /\ op' = "t.mark_done"

\* Task.from_dict(t.to_dict()) with the object the caller holds.
ToDictFromDict ==
    /\ held.some
    /\ LET d == to_dict(held.task)
       IN  ret' = IF FromDictRaises(d) THEN RetRaise("TypeError")
                  ELSE RetTask(from_dict(d, clock))
    /\ sqlRet' = RetNone
    /\ op' = "from_dict"
    /\ UNCHANGED <<file, index, next_id, raised, held, db, clock, file0, archived, templates, savedAs, gen, archiving,
                   allocated, deleted, deletedSince>>

\* A CLI command ran on the JSON store and left it as S; ret says whether it
\* wrote the store (the command then prints its success message).
Ran(S, name, backup) ==
    /\ index' = NormIndex(S.index)
    /\ next_id' = S.next_id
    /\ file' = S.file
    /\ held' = NormHeld(S.index, S.held)
    /\ op' = name
    /\ ret' = [kind |-> "bool", value |-> S # Cur, backup |-> backup]
    /\ sqlRet' = RetNone
    /\ UNCHANGED <<raised, db, clock, file0, archived, templates, savedAs, gen, archiving>>

Removed(S) == Keys(index) \ Keys(S.index)

CmdDone ==
    /\ Alive
    /\ \E task_id \in Ids : Ran(done(Cur, task_id, clock), "done", "none")
    /\ UNCHANGED <<allocated, deleted, deletedSince>>

CmdDoneAll ==
    /\ Alive
    /\ \E task_ids \in IdLists : Ran(done_all(Cur, task_ids, clock), "done-all", "none")
    /\ UNCHANGED <<allocated, deleted, deletedSince>>

CmdUndo ==
    /\ Alive
    /\ \E task_id \in Ids : Ran(undo(Cur, task_id), "undo", "none")
    /\ UNCHANGED <<allocated, deleted, deletedSince>>

CmdPriority ==
    /\ Alive
    /\ \E task_id \in Ids, new \in {"low", "medium", "high"} :
        Ran(priority_command(Cur, task_id, new), "priority", "none")
    /\ UNCHANGED <<allocated, deleted, deletedSince>>

CmdRm ==
    /\ Alive
    /\ \E task_id \in Ids, confirmed \in BOOLEAN, backup_ok \in BOOLEAN :
        LET S == rm(Cur, task_id, confirmed, backup_ok)
            called == task_id \in Keys(index) /\ confirmed
        IN  /\ Ran(S, "rm", IF ~called THEN "none"
                            ELSE IF backup_ok THEN "made" ELSE "failed")
            /\ Ghosts(allocated, deleted \cup Removed(S), deletedSince \cup Removed(S))

CmdClear ==
    /\ Alive
    /\ \E completed \in BOOLEAN, confirmed \in BOOLEAN, backup_ok \in BOOLEAN :
        LET S == clear(Cur, completed, confirmed, backup_ok)
            saved == S # Cur
            called == confirmed /\ \E e \in Range(index) : e.task.completed = completed
        IN  /\ Ran(S, "clear", IF ~called THEN "none"
                               ELSE IF backup_ok THEN "made" ELSE "failed")
            /\ Ghosts(IF saved THEN 0 ELSE allocated, deleted \cup Removed(S),
                      IF saved THEN {} ELSE deletedSince)

CmdMove ==
    /\ Alive
    /\ \E from_id \in Ids, to_id \in Ids :
        LET S == move(Cur, from_id, to_id)
            saved == S # Cur
        IN  /\ Ran(S, "move", "none")
            /\ Ghosts(IF saved THEN 0 ELSE allocated, deleted,
                      IF saved THEN {} ELSE deletedSince)

\* The archive and unarchive commands.
CmdArchive ==
    /\ Alive
    /\ Len(archived) < MaxTasks
    /\ \E task_id \in Ids :
        LET r == archive(Cur, archived, task_id, clock)
        IN  /\ index' = NormIndex(r.store.index)
            /\ next_id' = r.store.next_id
            /\ file' = r.store.file
            /\ held' = NormHeld(r.store.index, r.store.held)
            /\ archived' = r.archived
            /\ ret' = r.ret
    /\ op' = "archive"
    /\ sqlRet' = RetNone
    /\ UNCHANGED <<raised, db, clock, file0, templates, savedAs, gen, archiving, allocated, deleted, deletedSince>>

\* An archive command whose first write is the delete from the active store.
ArchiveDeletesFirst ==
    /\ Alive
    /\ archiving = 0
    /\ Len(archived) < MaxTasks
    /\ \E task_id \in Ids :
        /\ task_id \in Keys(index)
        /\ archive_get_task(archived, task_id, clock) = RetNone
        /\ LET r == delete_task(Cur, task_id)
           IN  /\ index' = NormIndex(r.index)
               /\ next_id' = r.next_id
               /\ file' = r.file
               /\ held' = NormHeld(r.index, r.held)
        /\ archiving' = task_id
        /\ ret' = RetTask(index[Pos(index, task_id)].task)
    /\ op' = "archive: add_task"
    /\ sqlRet' = RetNone
    /\ UNCHANGED <<archived, raised, db, clock, file0, templates, savedAs, gen, allocated, deleted,
                   deletedSince>>

\* The archive command up to and with ArchiveStorage().add_task(task), for a
\* task that is in the store and not in the archive (otherwise the command
\* returns and has written nothing).
ArchiveAdd ==
    /\ Alive
    /\ archiving = 0
    /\ Len(archived) < MaxTasks
    /\ \E task_id \in Ids :
        /\ task_id \in Keys(index)
        /\ archive_get_task(archived, task_id, clock) = RetNone
        /\ archived' = archive_add_task(archived, index[Pos(index, task_id)].task, clock)
        /\ archiving' = task_id
        /\ ret' = RetTask(index[Pos(index, task_id)].task)
    /\ op' = "archive: add_task"
    /\ sqlRet' = RetNone
    /\ UNCHANGED <<file, index, next_id, held, raised, db, clock, file0, templates, savedAs,
                   gen, allocated, deleted, deletedSince>>

\* The rest of the archive command: storage.delete_task(task_id).
ArchiveDelete ==
    /\ Alive
    /\ archiving # 0
    /\ LET r == delete_task(Cur, archiving)
       IN  /\ index' = NormIndex(r.index)
           /\ next_id' = r.next_id
           /\ file' = r.file
           /\ held' = NormHeld(r.index, r.held)
           /\ ret' = r.ret
    /\ archiving' = 0
    /\ op' = "archive: delete_task"
    /\ sqlRet' = RetNone
    /\ UNCHANGED <<archived, raised, db, clock, file0, templates, savedAs, gen, allocated, deleted,
                   deletedSince>>

\* The archive command ends between its two writes (the process is killed,
\* or delete_task raises on a file it cannot write).
ArchiveFail ==
    /\ Alive
    /\ archiving # 0
    /\ archiving' = 0
    /\ ret' = RetRaise("Exception")
    /\ op' = "archive: failed"
    /\ sqlRet' = RetNone
    /\ UNCHANGED <<file, index, next_id, held, archived, raised, db, clock, file0, templates,
                   savedAs, gen, allocated, deleted, deletedSince>>

CmdUnarchive ==
    /\ Alive
    /\ \E task_id \in Ids :
        LET r == unarchive(Cur, archived, task_id, clock)
        IN  /\ index' = NormIndex(r.store.index)
            /\ next_id' = r.store.next_id
            /\ file' = r.store.file
            /\ held' = NormHeld(r.store.index, r.store.held)
            /\ archived' = r.archived
            /\ ret' = r.ret
    /\ op' = "unarchive"
    /\ sqlRet' = RetNone
    /\ UNCHANGED <<raised, db, clock, file0, templates, savedAs, gen, archiving, allocated, deleted, deletedSince>>

\* add_task(text, priority, tags) on both stores, text one of texts and tags
\* one of tagLists.
AddTaskTags(texts, tagLists) ==
    /\ Alive
    /\ Len(index) < MaxTasks
    /\ next_id <= MaxId
    /\ \E text \in texts, tags \in tagLists :
        LET r == add_task(Cur, text, "medium", tags, clock)
            q == sqlite_add_task(db, text, "medium", tags, clock)
        IN  /\ Becomes(r, Ref(FreshOid, r.ret.task))
            /\ ret' = r.ret
            /\ db' = q.db
            /\ sqlRet' = q.ret
            /\ Ghosts(Max(allocated, r.ret.task.id), deleted, deletedSince)
    /\ op' = "add_task"

\* t.add_tag(tag) on the object the caller holds.
CallerAddTag ==
    /\ Alive
    /\ held.some
    /\ \E tag \in {"x", "y"} : CallerWrites(add_tag(held.task, tag))
    /\ op' = "t.add_tag"

\* t.add_subtask(subtask_id) and t.remove_subtask(subtask_id) on the object the
\* caller holds, subtask_id one of the first ids a store gives out.
CallerSubtask ==
    /\ Alive
    /\ held.some
    /\ \E subtask_id \in 1..MaxTasks :
        \/ /\ CallerWrites(add_subtask(held.task, subtask_id))
           /\ op' = "t.add_subtask"
        \/ /\ CallerWrites(remove_subtask(held.task, subtask_id))
           /\ op' = "t.remove_subtask"

\* The add command: the text one of texts and the --tag options one of
\* tagLists; plain (one of plains) says that it has the default priority, no
\* default tags, no attachment and no link.
CmdAdd(texts, tagLists, plains) ==
    /\ Alive
    /\ \E task \in texts, tag \in tagLists, plain \in plains :
        LET r == IF plain THEN add(Cur, task, "medium", <<>>, tag, <<>>, <<>>, clock)
                 ELSE add(Cur, task, "high", <<"y">>, tag, <<"f">>, <<"u">>, clock)
            created == r.ret.code = 0
        IN  /\ created => (Len(index) < MaxTasks /\ next_id <= MaxId)
            /\ Becomes(r, held)
            /\ ret' = r.ret
            /\ Ghosts(IF created THEN Max(allocated, next_id) ELSE allocated,
                      deleted, deletedSince)
    /\ op' = "add"
    /\ sqlRet' = RetNone
    /\ UNCHANGED db

\* The edit command: --text one of texts, --priority one of priorities,
\* --add-tag one of tagLists, with or without --remove-tag x.
CmdEdit(texts, priorities, tagLists) ==
    /\ Alive
    /\ \E task_id \in Ids, text \in texts, priority \in priorities,
          add_tags \in tagLists, remove_tags \in {<<>>, <<"x">>} :
        LET r == edit(Cur, task_id, text, priority, add_tags, remove_tags)
        IN  /\ Becomes(r, r.held)
            /\ ret' = r.ret
    /\ op' = "edit"
    /\ sqlRet' = RetNone
    /\ UNCHANGED <<db, allocated, deleted, deletedSince>>

\* A caller saves a task as a template.
SaveTemplate ==
    /\ \E task \in {[Task(1, <<"a">>, "high", <<"x">>, 1) EXCEPT !.links = <<"u">>],
                    Task(2, <<"b">>, "medium", <<>>, 1)},
          name \in TemplateNames :
        /\ templates' = save_template(templates, task, name)
        /\ savedAs' = [n \in DOMAIN savedAs \cup {name} |->
                          IF n = name THEN task ELSE savedAs[n]]
    /\ ret' = RetNone
    /\ op' = "save_template"
    /\ UNCHANGED <<file, index, next_id, raised, held, db, clock, sqlRet, file0,
                   archived, gen, archiving, allocated, deleted, deletedSince>>

\* A caller deletes a template.
DeleteTemplate ==
    /\ \E name \in TemplateNames :
        LET r == delete_template(templates, name)
        IN  /\ templates' = r.templates
            /\ savedAs' = [n \in DOMAIN savedAs \ {name} |-> savedAs[n]]
            /\ ret' = r.ret
    /\ op' = "delete_template"
    /\ UNCHANGED <<file, index, next_id, raised, held, db, clock, sqlRet, file0,
                   archived, gen, archiving, allocated, deleted, deletedSince>>

\* A caller loads a template or lists the templates.
ReadTemplates ==
    /\ \/ /\ \E name \in TemplateNames : ret' = load_template(templates, name)
          /\ op' = "load_template"
       \/ /\ ret' = [kind |-> "list", names |-> list_templates(templates)]
          /\ op' = "list_templates"
    /\ UNCHANGED <<file, index, next_id, raised, held, db, clock, sqlRet, file0,
                   archived, templates, savedAs, gen, archiving, allocated, deleted, deletedSince>>

Next ==
    \/ Tick
    \/ Reopen
    \/ AddTask
    \/ GetTask
    \/ UpdateTask
    \/ DeleteTask
    \/ SaveTasks
    \/ SaveList
    \/ ReadTasks
    \/ ListTasks
    \/ IterTasks
    \/ CallerSetText
    \/ CallerSetId
    \/ CallerMarkDone
    \/ CallerSetExtended
    \/ ToDictFromDict
    \/ CmdDone
    \/ CmdDoneAll
    \/ CmdUndo
    \/ CmdPriority
    \/ CmdRm
    \/ CmdClear
    \/ CmdMove
    \/ CmdArchive
    \/ CmdUnarchive
    \/ AddTaskTags(CliTexts, TagLists)
    \/ CallerAddTag
    \/ CallerSubtask
    \/ CmdAdd(CliTexts, TagLists, BOOLEAN)
    \/ CmdEdit(CliTexts, {"", "high"}, TagLists)
    \/ SaveTemplate
    \/ DeleteTemplate
    \/ ReadTemplates
    \/ IterCall(Starts, Counts)
    \/ IterNext
    \/ ArchiveAdd
    \/ ArchiveDelete
    \/ ArchiveFail

Spec == Init /\ [][Next]_vars

\* Construction from every file of InitialFiles, then processes that open the
\* file again or add a task.
SpecLoad ==
    InitAnyFile /\ [][Tick \/ Reopen \/ AddTask]_vars

\* The store's add_task and delete_task alone.
SpecAddDelete ==
    Init /\ [][AddTask \/ DeleteTask]_vars

\* The store's operations, called with objects the caller got from the store
\* and wrote the text of.
SpecApi ==
    Init /\ [][AddTask \/ GetTask \/ UpdateTask \/ DeleteTask \/ SaveTasks \/ CallerSetText]_vars

\* The same calls on both backends, from two empty stores.
SpecBackends ==
    InitEmpty /\ [][AddTask \/ GetTask \/ UpdateTask \/ DeleteTask \/ ReadTasks \/ CallerSetText \/ CallerMarkDone]_vars

\* The store's operations with a caller that also writes the id of its object.
SpecCaller ==
    Init /\ [][AddTask \/ GetTask \/ UpdateTask \/ DeleteTask \/ CallerSetId]_vars

\* The store's mutating operations and the commands that remove or renumber
\* tasks, on a store that starts with no file.
SpecCli ==
    InitEmpty /\ [][AddTask \/ UpdateTask \/ DeleteTask \/ SaveTasks \/ CmdDone \/ CmdRm \/ CmdClear \/ CmdMove]_vars

\* add_task and the done, done-all and undo commands, from an empty store.
SpecDone ==
    InitEmpty /\ [][Tick \/ AddTask \/ CmdDone \/ CmdDoneAll \/ CmdUndo]_vars

\* save_tasks with lists the caller makes, on stores that hold tasks.
SpecSave ==
    Init /\ [][AddTask \/ SaveList \/ ReadTasks]_vars

\* Stores filled by add_task, with delete_task in between, and read in pages.
SpecPages ==
    InitEmpty /\ [][AddTask \/ DeleteTask \/ ListTasks \/ IterTasks]_vars

\* Task.to_dict and Task.from_dict on the Task objects of ValidTasks, at any
\* time.
SpecRoundTrip ==
    InitTask /\ [][Tick \/ ToDictFromDict]_vars

\* Tasks whose extended fields the caller writes, stored with update_task and
\* read again, also by a store opened on the file later.
SpecExtended ==
    InitEmpty /\ [][Reopen \/ AddTask \/ GetTask \/ UpdateTask \/ CallerSetExtended]_vars

\* Tasks made by add_task with tags and by the add command, their tags then
\* changed by Task.add_tag and by the edit command.
SpecTags ==
    InitEmpty /\ [][\/ AddTaskTags({<<"a">>}, TagLists)
                    \/ CallerAddTag
                    \/ CmdAdd({<<"a">>}, TagLists, BOOLEAN)
                    \/ CmdEdit({<<>>}, {""}, TagLists)]_vars

\* Tasks made by add_task and by the add command with the texts of CliTexts,
\* and deleted.
SpecAdd ==
    InitEmpty /\ [][\/ AddTaskTags(CliTexts, {<<>>})
                    \/ CmdAdd(CliTexts, {<<>>}, BOOLEAN)
                    \/ DeleteTask]_vars

\* The store's operations with a caller that adds and removes subtask IDs on
\* the object it holds.
SpecSubtasks ==
    InitEmpty /\ [][AddTask \/ GetTask \/ UpdateTask \/ CallerSubtask]_vars

\* Tasks made by the add command at different times, then completed,
\* reactivated, given another priority and edited (--text), by processes that
\* open the file anew in between.
SpecFrame ==
    InitEmpty /\ [][\/ Tick
                    \/ Reopen
                    \/ CmdAdd({<<"a">>}, {<<>>}, {TRUE})
                    \/ CmdDone
                    \/ CmdDoneAll
                    \/ CmdUndo
                    \/ CmdPriority
                    \/ CmdEdit({<<>>, <<"b">>}, {""}, {<<>>})]_vars

\* Tasks added, completed, cleared and archived, and archived tasks restored.
SpecArchive ==
    InitEmpty /\ [][\/ CmdAdd({<<"a">>}, {<<>>}, {TRUE})
                    \/ CmdDone
                    \/ CmdClear
                    \/ CmdArchive
                    \/ CmdUnarchive]_vars

\* rm and clear on a store filled by add and done.
SpecDestroy ==
    InitEmpty /\ [][\/ CmdAdd({<<"a">>}, {<<>>}, {TRUE})
                    \/ CmdDone
                    \/ CmdRm
                    \/ CmdClear]_vars

\* A generator of iter_tasks consumed step by step between calls that change
\* the store.
SpecLazy ==
    InitEmpty /\ [][\/ AddTaskTags({<<"a">>}, {<<>>})
                    \/ DeleteTask
                    \/ SaveTasks
                    \/ IterCall({0, 1}, {2})
                    \/ IterNext]_vars

\* The archive command step by step, on a store filled by add and done.
SpecSteps ==
    InitEmpty /\ [][\/ CmdAdd({<<"a">>, <<"a", "a">>}, {<<>>}, {TRUE})
                    \/ CmdDone
                    \/ ArchiveAdd
                    \/ ArchiveDelete
                    \/ ArchiveFail]_vars

\* The template store alone.
SpecTemplates ==
    InitEmpty /\ [][SaveTemplate \/ DeleteTemplate \/ ReadTemplates]_vars

\* ------------------------------------------------------------ properties

\* C1: under add_task and delete_task, no two tasks present in the JSON store
\* have the same id, and no two rows of the SQLite table have the same id.
C1_UniqueIds ==
    /\ \A i, j \in 1..Len(index) : i # j => index[i].task.id # index[j].task.id
    /\ \A i, j \in 1..Len(db.rows) : i # j => db.rows[i].id # db.rows[j].id

\* Two tasks are in the store after an add_task that followed a delete_task.
C1_TwoTasksAfterDelete == op = "add_task" /\ Len(index) = 2 /\ deleted # {}

\* C2: the id add_task returns is above every id add_task returned since the
\* last save_tasks (or since construction), and save_tasks leaves next_id, the
\* id of the next add_task, at max(ids of the saved tasks) + 1.
C2_MonotonicAllocation ==
    [][/\ AddTask => ret'.task.id > allocated
       /\ op' = "save_tasks" => next_id' = MaxTaskId(Values(index')) + 1]_vars

\* add_task returned an id above an earlier one after that one's task, or
\* another, was deleted.
C2_AddAfterDelete == op = "add_task" /\ deletedSince # {} /\ ret.task.id >= 3

C4_AddNeverReplaces ==
    [][AddTask => /\ ret'.task.id \notin Keys(index)
                  /\ Len(index') = Len(index) + 1]_vars

\* C5: every call returns the same on the JSON store and on the SQLite store.
C5_SameResults == ret = sqlRet

\* C6: after add_task, update_task of a present id or delete_task of a present
\* id, the file is a current-shape document and a TaskStorage constructed from
\* it has the next_id and the tasks, in order, of the store that wrote it.
C6_FileIsTheStore ==
    [][(\/ AddTask
        \/ (UpdateTask /\ held.task.id \in Keys(index))
        \/ (DeleteTask /\ ret'.value))
       => LET st == TaskStorage(file', clock')
          IN  /\ file'.kind = "object" /\ file'.has_next_id /\ file'.has_tasks
              /\ st.raised = ""
              /\ st.next_id = next_id'
              /\ Values(st.index) = Values(index')]_vars

\* C7: a task of the store has a completed_at exactly when it is completed.
C7_CompletedAtIffCompleted ==
    \A i \in 1..Len(index) :
        (index[i].task.completed_at # None) <=> index[i].task.completed

\* undo reactivated a task while another task of the store is completed.
C7_ReactivatedBesideCompleted ==
    /\ op = "undo"
    /\ ret.value
    /\ \E i \in 1..Len(index) : index[i].task.completed

\* C8: TaskStorage(path) raises for no content of the file, and a content that
\* is neither an array nor an object with next_id and tasks gives an empty
\* store with next_id = 1.
C8_ConstructionNeverRaises ==
    /\ raised = ""
    /\ (allocated = 0 /\ file0.kind # "array"
                      /\ ~(file0.kind = "object" /\ file0.has_next_id /\ file0.has_tasks))
       => (index = <<>> /\ next_id = 1)

\* C9: after the load of a legacy array, and until a task is added, the file is
\* the current-shape document whose tasks are the array's objects in order,
\* each with its own id when that is a positive JSON integer and with an id
\* equal to its 1-based position in the array otherwise, and whose next_id is
\* the largest of these ids plus one; the store's next_id is that number.
C9_LegacyMigration ==
    (file0.kind = "array" /\ allocated = 0) =>
        LET raw == file0.tasks
            ValidId(t) == "id" \in DOMAIN t /\ t.id.type = "int" /\ t.id.val > 0
            IdOf(i) == IF ValidId(raw[i]) THEN raw[i].id.val ELSE i
            objects == {i \in 1..Len(raw) : IsDict(raw[i])}
            largest == IF objects = {} THEN 0
                       ELSE CHOOSE m \in {IdOf(i) : i \in objects} :
                                \A i \in objects : IdOf(i) <= m
        IN  /\ file.kind = "object" /\ file.has_next_id /\ file.has_tasks
            /\ Len(file.tasks) = Cardinality(objects)
            /\ \A n \in 1..Len(file.tasks) :
                   \E i \in objects :
                       /\ Cardinality({j \in objects : j <= i}) = n
                       /\ file.tasks[n].id.val = IdOf(i)
                       /\ \A k \in DOMAIN raw[i] \ {"id"} : file.tasks[n][k] = raw[i][k]
            /\ file.next_id = largest + 1
            /\ raised = "" => next_id = largest + 1

\* C10: a second TaskStorage(path) on the file a legacy array was upgraded to,
\* with no mutation in between, has the tasks and the next_id of the first and
\* leaves the file as it is.
C10_SecondLoadSame ==
    [][(Reopen /\ file0.kind = "array" /\ allocated = 0 /\ raised = "")
       => /\ Values(index') = Values(index)
          /\ next_id' = next_id
          /\ file' = file]_vars

\* C11: update_task with a task whose id no task of the store has raises on
\* neither backend and leaves the tasks, next_id, the file and the database
\* as they were.
C11_UpdateAbsentIsNoOp ==
    [][(UpdateTask /\ held.task.id \notin Keys(index))
       => /\ ret'.kind # "raise"
          /\ sqlRet'.kind # "raise"
          /\ index' = index
          /\ next_id' = next_id
          /\ file' = file
          /\ db' = db]_vars

\* C12: in every state and for every id, delete_task(id) returns true exactly
\* when a task with that id is present; when it returns true, get_task(id)
\* then returns None and the other tasks, their order and next_id are as
\* before; when it returns false, the index, next_id and the file (the rows of
\* the database) are as before.
C12_DeleteRemovesExactlyOne ==
    \A task_id \in Ids :
        LET r == delete_task(Cur, task_id)
            q == sqlite_delete_task(db, task_id)
            present == \E i \in 1..Len(index) : index[i].task.id = task_id
            NotIt(t) == t.id # task_id
        IN  /\ r.ret = RetBool(present)
            /\ q.ret = RetBool(task_id \in RowIds(db))
            /\ present =>
                   /\ get_task(Store(r.index, r.next_id, r.file, r.held), task_id).ret
                          = RetNone
                   /\ Len(r.index) = Len(index) - 1
                   /\ Values(r.index) = SelectSeq(Values(index), NotIt)
                   /\ r.next_id = next_id
            /\ ~present => (r.index = index /\ r.next_id = next_id /\ r.file = file)
            /\ task_id \notin RowIds(db) => q.db = db

\* delete_task returned true and left another task in the store.
C12_DeletedOneOfTwo == op = "delete_task" /\ ret = RetBool(TRUE) /\ Len(index) = 1

\* C13: in every state and for every list L, after save_tasks(L) load_tasks()
\* returns the tasks of L, as many and in L's order, and next_id is the
\* largest id of L plus one, 1 when L is empty.
C13_SaveReplacesWithList ==
    \A L \in CallerLists(clock) :
        LET r == save_tasks(Cur, NewObjects(L))
        IN  /\ load_tasks(Store(r.index, r.next_id, r.file, r.held)).ret = RetList(L)
            /\ r.next_id = MaxTaskId(L) + 1

\* C14: on both backends, after add_task returned a task and after update_task
\* wrote a present task, get_task of its id returns a task with that id and
\* the text, priority, tags and completion state last written; get_task of an
\* id no task has returns None.
C14_ReadYourWrites ==
    LET Written(r, t) == /\ r.kind = "Task"
                         /\ r.task.id = t.id
                         /\ r.task.text = t.text
                         /\ r.task.priority = t.priority
                         /\ r.task.tags = t.tags
                         /\ r.task.completed = t.completed
        Reads(t) == /\ Written(get_task(Cur, t.id).ret, t)
                    /\ Written(sqlite_get_task(db, t.id).ret, t)
    IN  /\ op = "add_task" => (ret.kind = "Task" /\ sqlRet.kind = "Task" /\ Reads(ret.task))
        /\ (op = "update_task" /\ held.task.id \in Keys(index)) => Reads(held.task)
        /\ \A i \in Ids \ Keys(index) :
               get_task(Cur, i).ret = RetNone /\ sqlite_get_task(db, i).ret = RetNone

\* C15: on a store created empty on which save_tasks is never called, add_task
\* returns one more than the largest id returned before (allocated, which is 0
\* before the first call: the k-th call returns k), whatever was deleted or
\* updated in between; it raises next_id by one and leaves the tasks already
\* in the store, and their order, as they were.
C15_KthAddReturnsK ==
    [][AddTask => /\ ret'.task.id = allocated + 1
                  /\ next_id' = next_id + 1
                  /\ Len(index') = Len(index) + 1
                  /\ SubSeq(index', 1, Len(index)) = index]_vars

\* The third add_task returned 3 after an earlier task was deleted.
C15_ThirdAddAfterDelete ==
    op = "add_task" /\ ret.task.id = 3 /\ deleted # {} /\ Len(index) = 2

\* C16: on stores filled by add_task, with delete_task in between, for every
\* page >= 1 and page_size >= 1 list_tasks(page, page_size) returns, on the
\* JSON store and on the SQLite store, the tasks at places
\* (page-1)*page_size .. page*page_size - 1 (counted from 0) of the tasks added
\* and not deleted, in the order they were added (the order of their ids), so
\* at most page_size tasks; load_tasks() returns all of them in that order.
C16_Pagination ==
    LET sorted == SortedById(Objects(index))
        added == [i \in 1..Len(sorted) |-> sorted[i].task]
    IN  /\ load_tasks(Cur).ret = RetList(added)
        /\ sqlite_load_tasks(db).ret = RetList(added)
        /\ \A page \in 1..MaxPage, page_size \in PageSizes :
               LET lo == (page - 1) * page_size
                   hi == IF lo + page_size > Len(added) THEN Len(added)
                         ELSE lo + page_size
                   want == IF lo >= hi THEN <<>> ELSE SubSeq(added, lo + 1, hi)
               IN  /\ Len(want) <= page_size
                   /\ list_tasks(Cur, page, page_size).ret = RetList(want)
                   /\ sqlite_list_tasks(db, page, page_size).ret = RetList(want)

\* C17: in every state, for every start >= 0 and count >= 0, iter_tasks(start,
\* count) yields the tasks at places start .. start+count-1 (counted from 0)
\* of load_tasks(), in that order and at most count of them; they are the
\* tasks of list_tasks(page, page_size) whenever start = (page-1)*page_size and
\* count = page_size, on the SQLite store too; the call leaves the store as it
\* is, so the same call yields the same again.
C17_IterIsTheSlice ==
    \A start \in Starts, count \in Counts :
        LET all == load_tasks(Cur).ret.tasks
            r == iter_tasks(Cur, start, count)
            hi == IF start + count > Len(all) THEN Len(all) ELSE start + count
            want == IF start >= hi THEN <<>> ELSE SubSeq(all, start + 1, hi)
        IN  /\ r.ret = RetList(want)
            /\ Len(r.ret.tasks) <= count
            /\ Store(r.index, r.next_id, r.file, r.held) = Cur
            /\ sqlite_iter_tasks(db, start, count).db = db
            /\ \A page \in 1..MaxPage, page_size \in PageSizes :
                   (start = (page - 1) * page_size /\ count = page_size) =>
                       /\ r.ret = list_tasks(Cur, page, page_size).ret
                       /\ sqlite_iter_tasks(db, start, count).ret
                              = sqlite_list_tasks(db, page, page_size).ret

\* iter_tasks yielded the second of two tasks and nothing else.
C17_YieldedSecondTask ==
    /\ op = "iter_tasks"
    /\ Len(index) = 2
    /\ ret = RetList(<<index[2].task>>)

\* C18: on both backends get_active_tasks returns the tasks of load_tasks()
\* that are not completed and get_completed_tasks those that are, each in the
\* order of load_tasks(), so every task is in exactly one of the two; a task
\* that was marked done and written with update_task is then in the second
\* and not in the first.
C18_ActiveCompletedPartition ==
    LET all == load_tasks(Cur).ret.tasks
        active == get_active_tasks(Cur).ret
        completed == get_completed_tasks(Cur).ret
        rows == sqlite_load_tasks(db).ret
        sqlActive == sqlite_get_by_completed(db, FALSE).ret
        sqlCompleted == sqlite_get_by_completed(db, TRUE).ret
        In(t, r) == r.kind = "list" /\ \E i \in 1..Len(r.tasks) : r.tasks[i] = t
    IN  /\ active = RetList(SelectSeq(all, IsActive))
        /\ completed = RetList(SelectSeq(all, IsCompleted))
        /\ rows.kind = "list"
        /\ sqlActive = RetList(SelectSeq(rows.tasks, IsActive))
        /\ sqlCompleted = RetList(SelectSeq(rows.tasks, IsCompleted))
        /\ (op = "update_task" /\ held.task.completed /\ held.task.id \in Keys(index))
           => /\ In(held.task, completed) /\ ~In(held.task, active)
              /\ In(held.task, sqlCompleted) /\ ~In(held.task, sqlActive)

\* C19: Task.from_dict(Task.to_dict(t)) returns a Task with the value of t in
\* every one of the thirteen fields.
C19_RoundTrip ==
    op = "from_dict" =>
        /\ ret.kind = "Task"
        /\ DOMAIN ret.task = TaskFields
        /\ \A k \in TaskFields : ret.task[k] = held.task[k]

\* A completed task with notes, a parent and subtasks went through to_dict and
\* from_dict later than it was created.
C19_RoundTripOfFullTask ==
    /\ op = "from_dict"
    /\ held.task.completed /\ held.task.completed_at # None
    /\ held.task.notes = "n" /\ held.task.parent_id # None
    /\ held.task.subtasks # <<>> /\ held.task.attachments # <<>>
    /\ clock > held.task.created_at

\* C20: after update_task wrote a present task t, get_task(t.id) returns, on
\* the JSON store, on a JSON store opened on the file afterwards and on the
\* SQLite store, a task whose attachments, links, parent_id, subtasks, notes
\* and is_global are those of t.
C20_ExtendedFieldsRoundTrip ==
    LET Ext(r, t) == /\ r.kind = "Task"
                     /\ r.task.attachments = t.attachments
                     /\ r.task.links = t.links
                     /\ r.task.parent_id = t.parent_id
                     /\ r.task.subtasks = t.subtasks
                     /\ r.task.notes = t.notes
                     /\ r.task.is_global = t.is_global
        again == TaskStorage(file, clock)
    IN  (op = "update_task" /\ held.task.id \in Keys(index)) =>
            /\ Ext(get_task(Cur, held.task.id).ret, held.task)
            /\ again.raised = ""
            /\ Ext(get_task(Store(again.index, again.next_id, again.file, NoRef),
                            held.task.id).ret, held.task)
            /\ Ext(sqlite_get_task(db, held.task.id).ret, held.task)

\* C21: the tags of every stored task hold no string twice, and a step of
\* add_task, Task.add_tag, add or edit leaves the tags a task already has in
\* the order they have.
C21_TagsSetLike ==
    [][\A j \in 1..Len(index') :
          LET new == index'[j].task.tags
              At(tags, x) == CHOOSE p \in 1..Len(tags) : tags[p] = x
          IN  /\ \A p, q \in 1..Len(new) : p # q => new[p] # new[q]
              /\ \A i \in 1..Len(index) :
                     index[i].key = index'[j].key =>
                         LET old == index[i].task.tags
                         IN  \A x, y \in Range(old) \cap Range(new) :
                                 At(old, x) < At(old, y) => At(new, x) < At(new, y)]_vars

\* C22: in every state, the add command with a text that is empty or all
\* blanks ends with a non-zero exit status and leaves the tasks, next_id and
\* the file as they are, whatever its options; and an add command that ended
\* with a non-zero status has changed none of them.
C22_BlankTextRejected ==
    [][/\ \A task \in CliTexts, tag \in TagLists, link \in {<<>>, <<"u">>} :
              Strip(task) = <<>> =>
                  LET r == add(Cur, task, "high", <<"y">>, tag, <<"f">>, link, clock)
                  IN  /\ r.ret.kind = "exit" /\ r.ret.code # 0
                      /\ r.index = index /\ r.next_id = next_id /\ r.file = file
       /\ (op' = "add" /\ ret'.code # 0) =>
              (index' = index /\ next_id' = next_id /\ file' = file)]_vars

\* The add command was refused on a store that holds a task.
C22_RefusedOnStoreWithTask == op = "add" /\ ret.code = 1 /\ Len(index) >= 1

\* C23: the text of every task add_task or the add command created is not
\* empty and has no blank at its start or end.
C23_TextTrimmed ==
    \A i \in 1..Len(index) :
        LET text == index[i].task.text
        IN  text # <<>> /\ text[1] # " " /\ text[Len(text)] # " "

\* C24: no task of the store has its own id among its subtasks or as its
\* parent_id.
C24_NoSelfParenting ==
    \A i \in 1..Len(index) :
        LET t == index[i].task
        IN  t.id \notin Range(t.subtasks) /\ t.parent_id # t.id

\* C25: a step of done, done-all, undo, priority or edit (and of a process
\* opening the file) leaves the store with the same tasks in the same places,
\* each with the id and the created_at it had, in the index and in the file;
\* done and done-all change no field of a task but completed and
\* completed_at, and neither does mark_done on any task of the store.
C25_IdAndCreatedAtKept ==
    [][/\ op' \in {"done", "done-all", "undo", "priority", "edit", "TaskStorage"} =>
              /\ Len(index') = Len(index)
              /\ Len(file'.tasks) = Len(file.tasks)
              /\ \A i \in 1..Len(index) :
                     /\ index'[i].key = index[i].key
                     /\ index'[i].task.id = index[i].task.id
                     /\ index'[i].task.created_at = index[i].task.created_at
              /\ \A i \in 1..Len(file.tasks) :
                     /\ file'.tasks[i].id = file.tasks[i].id
                     /\ file'.tasks[i].created_at = file.tasks[i].created_at
       /\ op' \in {"done", "done-all"} =>
              \A i \in 1..Len(index), k \in TaskFields \ {"completed", "completed_at"} :
                  index'[i].task[k] = index[i].task[k]
       /\ \A i \in 1..Len(index), k \in TaskFields \ {"completed", "completed_at"} :
              mark_done(index[i].task, clock)[k] = index[i].task[k]]_vars

\* A task made earlier was completed, given the priority low and then edited.
C25_EditedCompletedTask ==
    /\ op = "edit"
    /\ ret = RetRaise("NameError")
    /\ \E i \in 1..Len(index) :
           /\ index[i].task.completed
           /\ index[i].task.priority = "low"
           /\ index[i].task.text = <<"b">>
           /\ index[i].task.created_at < clock

\* C26: when the archive command has archived the task with id i, the active
\* store has no task with id i, the archive has exactly one task with id i,
\* that task has the value the active task had in every field, id included,
\* and the tasks the archive already had are as they were.
C26_ArchiveKeepsTheTask ==
    [][(CmdArchive /\ ret'.kind = "Task") =>
          LET i == ret'.task.id
              was == index[Pos(index, i)].task
              now == {n \in 1..Len(archived') : archived'[n].id.val = i}
          IN  /\ i \in Keys(index)
              /\ i \notin Keys(index')
              /\ \A n \in 1..Len(index') : index'[n].task.id # i
              /\ \A n \in 1..Len(file'.tasks) : file'.tasks[n].id.val # i
              /\ Cardinality(now) = 1
              /\ \A n \in now : from_dict(archived'[n], clock) = was
              /\ archive_get_task(archived', i, clock) = RetTask(was)
              /\ Len(archived') = Len(archived) + 1
              /\ SubSeq(archived', 1, Len(archived)) = archived]_vars

\* A completed task was archived into an archive that held a task already and
\* beside an active task that stays.
C26_ArchivedSecondTask ==
    /\ op = "archive"
    /\ ret.kind = "Task"
    /\ ret.task.completed
    /\ Len(archived) = 2
    /\ Len(index) = 1

\* C29: for every id i, when the archive holds a task with id i and the
\* active store holds none, unarchive i leaves the active store with that
\* task under id i, its fields as archived, and the archive without it;
\* otherwise it leaves both stores as they are.
C29_UnarchiveRestores ==
    \A i \in Ids :
        LET r == unarchive(Cur, archived, i, clock)
            t == archive_get_task(archived, i, clock)
        IN  IF t # RetNone /\ i \notin Keys(index)
            THEN /\ r.ret.kind # "raise"
                 /\ get_task(With(r.store, RetNone), i).ret = t
                 /\ archive_get_task(r.archived, i, clock) = RetNone
            ELSE r.store = Cur /\ r.archived = archived

\* C27: for every template name, load_template returns None when the name
\* was never saved or was deleted since, and otherwise a projection with
\* exactly the fields text, priority, tags and links, each equal to that
\* field of the task last saved under the name.
C27_TemplateRoundTrip ==
    \A name \in TemplateNames :
        LET r == load_template(templates, name)
        IN  IF name \in DOMAIN savedAs
            THEN /\ r.kind = "dict"
                 /\ DOMAIN r.data = {"text", "priority", "tags", "links"}
                 /\ r.data.text = savedAs[name].text
                 /\ r.data.priority = savedAs[name].priority
                 /\ r.data.tags = savedAs[name].tags
                 /\ r.data.links = savedAs[name].links
            ELSE r = RetNone

\* A template with a tag and a link was loaded while a second template is
\* saved and a third name is not.
C27_LoadedOneOfTwo ==
    /\ op = "load_template"
    /\ ret.kind = "dict"
    /\ ret.data.tags = <<"x">>
    /\ ret.data.links = <<"u">>
    /\ Cardinality(DOMAIN savedAs) = 2
    /\ \E name \in DOMAIN savedAs : savedAs[name].id = 2

\* C28: list_templates returns the names saved and not deleted since, each
\* once, in sorted order, and delete_template of a name returns true exactly
\* when the name is one of them.
C28_ListSortedByName ==
    /\ list_templates(templates) = SortedStrings(DOMAIN savedAs)
    /\ \A name \in TemplateNames :
        delete_template(templates, name).ret = RetBool(name \in DOMAIN savedAs)

\* C30: an rm or a clear command changes the store's tasks, next_id or file
\* only when its create_backup returned; a command whose create_backup
\* raised, and one that did not get as far as create_backup, leaves all three
\* as they were.
C30_BackupPrecedesDestruction ==
    [][(CmdRm \/ CmdClear) =>
          /\ ret'.backup # "made" => index' = index /\ next_id' = next_id /\ file' = file
          /\ ret'.value => ret'.backup = "made"]_vars

\* rm was confirmed for a task of a store of two tasks and create_backup
\* raised.
C30_RmAbortedOnFailedBackup ==
    /\ op = "rm"
    /\ ret.backup = "failed"
    /\ Len(index) = 2

\* C31: for every id, done on a completed task and undo on a task that is
\* not completed leave the store as it is, and so do done and undo on an id
\* that is not present; done a second time, at any later time, changes
\* nothing of what the first did, and undo after done on an active task
\* leaves it not completed with no completed_at.
C31_DoneIdempotentUndoInverse ==
    \A task_id \in Ids :
        IF task_id \notin Keys(index)
        THEN done(Cur, task_id, clock) = Cur /\ undo(Cur, task_id) = Cur
        ELSE LET t == index[Pos(index, task_id)].task
                 D == done(Cur, task_id, clock)
                 U == undo(D, task_id)
             IN  /\ t.completed => D = Cur
                 /\ ~t.completed => undo(Cur, task_id) = Cur
                 /\ \A later \in Times : later >= clock => done(D, task_id, later) = D
                 /\ ~t.completed =>
                       /\ ~U.index[Pos(U.index, task_id)].task.completed
                       /\ U.index[Pos(U.index, task_id)].task.completed_at = None
                       /\ U.file.tasks = file.tasks

\* done ran and changed nothing on a store whose tasks were all completed at
\* an earlier time.
C31_DoneOnCompleted ==
    /\ op = "done"
    /\ ~ret.value
    /\ Len(index) = 2
    /\ \A i \in 1..Len(index) :
           index[i].task.completed /\ index[i].task.completed_at < clock

\* C32: for every from_id and to_id, when from_id is present, to_id is absent
\* and the two differ, move leaves the store with as many tasks as before,
\* get_task(to_id) returns the task from_id had with only its id changed,
\* get_task(from_id) returns None, every other task is as before, and the
\* file holds the same; in every other case move leaves the store as it is.
C32_MoveRenumbers ==
    \A from_id \in Ids, to_id \in Ids :
        LET M == move(Cur, from_id, to_id)
        IN  IF from_id \in Keys(index) /\ to_id \notin Keys(index) /\ from_id # to_id
            THEN LET was == index[Pos(index, from_id)].task
                     now == [was EXCEPT !.id = to_id]
                 IN  /\ Len(M.index) = Len(index)
                     /\ get_task(M, to_id).ret = RetTask(now)
                     /\ get_task(M, from_id).ret = RetNone
                     /\ \A k \in Ids \ {from_id, to_id} :
                            get_task(M, k).ret = get_task(Cur, k).ret
                     /\ Len(M.file.tasks) = Len(index)
                     /\ \A i \in 1..Len(index) :
                            \E j \in 1..Len(M.file.tasks) :
                                M.file.tasks[j] =
                                    to_dict(IF index[i].key = from_id THEN now
                                            ELSE index[i].task)
            ELSE M = Cur

\* move renumbered a completed task of a store of two tasks to an id above
\* the other task's.
C32_MovedCompletedTask ==
    /\ op = "move"
    /\ ret.value
    /\ Len(index) = 2
    /\ index[1].task.id < index[2].task.id
    /\ index[2].task.completed
    /\ next_id = index[2].task.id + 1
    /\ allocated = 0

\* C33: clear --completed, confirmed and backed up, leaves in the index and
\* in the file exactly the tasks that were not completed, each as it was and
\* in their order, and clear --active exactly the completed ones; with
\* nothing to clear, or declined by the user, clear leaves the store as it
\* is.
C33_ClearRemovesOneClass ==
    \A completed \in BOOLEAN, confirmed \in BOOLEAN, backup_ok \in BOOLEAN :
        LET C == clear(Cur, completed, confirmed, backup_ok)
            Stays(e) == e.task.completed # completed
            stay == SelectSeq(index, Stays)
        IN  /\ (Len(stay) = Len(index) \/ ~confirmed) => C = Cur
            /\ (Len(stay) < Len(index) /\ confirmed /\ backup_ok) =>
                  /\ Len(C.index) = Len(stay)
                  /\ \A i \in 1..Len(stay) :
                         /\ C.index[i].key = stay[i].key
                         /\ C.index[i].task = stay[i].task
                  /\ C.file.tasks = [i \in 1..Len(stay) |-> to_dict(stay[i].task)]

\* clear removed one task of two and kept the other.
C33_ClearedOneOfTwo ==
    /\ op = "clear"
    /\ ret.value
    /\ ret.backup = "made"
    /\ Len(index) = 1
    /\ Cardinality(deleted) = 1

\* C34: a write of the caller to its Task object changes what get_task
\* returns for no id, and an add_task after it leaves the tasks the file held
\* as the file held them.
C34_WritesWaitForUpdate ==
    [][/\ CallerSetExtended =>
              \A i \in Ids : get_task(Cur', i).ret = get_task(Cur, i).ret
       /\ (AddTask /\ Len(index) > 0) =>
              \A j \in 1..Len(file.tasks) : file'.tasks[j] = file.tasks[j]]_vars

\* C35: after add_task, update_task or delete_task, every key of the index
\* is the id of the task stored under it, and no two entries of the file's
\* task list have the same id.
C35_KeysAreIds ==
    op \in {"add_task", "update_task", "delete_task"} =>
        /\ \A i \in 1..Len(index) : index[i].key = index[i].task.id
        /\ \A j, k \in 1..Len(file.tasks) :
               (/\ j < k
                /\ "id" \in DOMAIN file.tasks[j]
                /\ "id" \in DOMAIN file.tasks[k]) => file.tasks[j].id # file.tasks[k].id

\* C36: right after its construction from a legacy array, a store holds as
\* many tasks as the array has object entries, under pairwise distinct keys.
C36_LegacyLoadLosesNoEntry ==
    (file0.kind = "array" /\ raised = "" /\ op = "TaskStorage") =>
        /\ Len(index) = Cardinality({i \in 1..Len(file0.tasks) : IsDict(file0.tasks[i])})
        /\ \A j, k \in 1..Len(index) : j < k => index[j].key # index[k].key

\* C39: for every page_size >= 1, list_tasks returns no task for a page
\* below 1 and for a page beyond the last populated one, on the JSON store
\* and on the SQLite store.
C39_OutsidePagesEmpty ==
    \A page \in Pages, page_size \in PageSizes :
        (page < 1 \/ (page - 1) * page_size >= Len(index)) =>
            /\ list_tasks(Cur, page, page_size).ret = RetList(<<>>)
            /\ sqlite_list_tasks(db, page, page_size).ret = RetList(<<>>)

\* C37 as stated: the tasks a generator of iter_tasks has yielded are the
\* first tasks of the slice of the store as it was when iter_tasks was
\* called, and all of that slice once the generator is exhausted.
C37_SliceAsAtTheCall ==
    /\ gen.state = "running" =>
          /\ Len(gen.yielded) <= Len(gen.at_call)
          /\ gen.yielded = SubSeq(gen.at_call, 1, Len(gen.yielded))
    /\ gen.state = "done" => gen.yielded = gen.at_call

\* C37: the tasks a generator of iter_tasks has yielded are the first tasks
\* of the slice of the store as it was at the first next(), whatever add_task,
\* delete_task and save_tasks did between the next(), and all of that slice
\* once the generator is exhausted.
C37_SliceAsAtTheFirstNext ==
    /\ gen.state = "running" =>
          /\ Len(gen.yielded) <= Len(gen.at_first)
          /\ gen.yielded = SubSeq(gen.at_first, 1, Len(gen.yielded))
    /\ gen.state = "done" => gen.yielded = gen.at_first

\* A generator is exhausted after two tasks, of a store that changed between
\* the call and the first next() and again after it.
C37_ConsumedAcrossChanges ==
    /\ op = "next(g)"
    /\ gen.state = "done"
    /\ Len(gen.yielded) = 2
    /\ gen.at_call # gen.at_first
    /\ iter_tasks(Cur, gen.start, gen.count).ret.tasks # gen.at_first

\* C38: no step of the archive command takes a task out of both stores: an
\* id that is in the active store or in the archive before the step is in
\* one of them after it; between the write to the archive and the delete
\* from the store the task is in both, and a command that ends there leaves
\* it in both.
C38_ArchiveNeverLoses ==
    [][(ArchiveAdd \/ ArchiveDelete \/ ArchiveFail) =>
          /\ \A i \in Ids :
                 (i \in Keys(index) \/ archive_get_task(archived, i, clock) # RetNone) =>
                     (i \in Keys(index') \/ archive_get_task(archived', i, clock') # RetNone)
          /\ archiving' # 0 =>
                 /\ archiving' \in Keys(index')
                 /\ archive_get_task(archived', archiving', clock') = ret'
                 /\ get_task(Cur', archiving').ret = ret'
          /\ ArchiveFail =>
                 /\ archiving \in Keys(index')
                 /\ archive_get_task(archived', archiving, clock') # RetNone]_vars

\* An archive command ended between its two writes, on a completed task
\* beside another task, and the store and the archive both hold the task.
C38_FailedBetweenTheWrites ==
    /\ op = "archive: failed"
    /\ Len(index) = 2
    /\ Len(archived) = 1
    /\ archived[1].completed
    /\ archived[1].id.val \in Keys(index)

=============================================================================
